---- MODULE Spec2Model ----
(***************************************************************************)
(* A model of the lexer generator: regular expression -> epsilon-NFA       *)
(* (fa.rs from_re), union of the per-production fragments (Lexer::compile), *)
(* subset construction (fa.rs to_dfa) and the scanning loop (Lexer::lex).   *)
(*                                                                         *)
(* Representation notes.                                                   *)
(*  - characters are one-letter strings, a text is a sequence of them;     *)
(*  - Option<T> is the string "None" or the kind itself;                   *)
(*  - automaton states are identified by their data; the DFA additionally  *)
(*    numbers its states 1..n in insertion order (the code counts from 0); *)
(*  - the production map is kept as a sequence of unique keys: the order   *)
(*    of a BTreeMap is the order of the key type, which only decides which *)
(*    fragment draws which (random) uuid.                                  *)
(***************************************************************************)
EXTENDS Integers, Sequences, FiniteSets, TLC

\* ---------------------------------------------------------------- bounds
MaxLen == 3          \* longest input text handed to lex
MaxCompiles == 2     \* number of compile() invocations that are counted
MaxMinted == 4       \* number of states one generator is asked for
MaxDecls == 3        \* number of declarations in a grammar text
MaxNodes == 3        \* number of nodes of a regex AST handed to from_re
MaxStored == 2       \* number of identities offered to a state store
MaxEdges == 1        \* number of transitions put into an NFA store

\* ------------------------------------------------------------- alphabets
Alphabet == {"A", "B", "C"}
None == "None"
NoneTr == "epsilon"
Panic == "Panic"

\* -------------------------------------------------------------- re.rs RE
Epsilon == [type |-> "Epsilon", symbol |-> "", res |-> <<>>]
Symbol(c) == [type |-> "Symbol", symbol |-> c, res |-> <<>>]
Alternation(rs) == [type |-> "Alternation", symbol |-> "", res |-> rs]
Concatenation(rs) == [type |-> "Concatenation", symbol |-> "", res |-> rs]
Repetition(r) == [type |-> "Repetition", symbol |-> "", res |-> <<r>>]

\* ------------------------------------------------------------- utilities
RECURSIVE SetToSeq(_)
SetToSeq(S) ==
    IF S = {} THEN <<>>
    ELSE LET x == CHOOSE y \in S : TRUE IN <<x>> \o SetToSeq(S \ {x})

RECURSIVE Flatten(_)
Flatten(ss) == IF ss = <<>> THEN <<>> ELSE Head(ss) \o Flatten(Tail(ss))

\* ---------------------------------------------------------------- fa.rs FA
FA_new(initial) ==
    [initial |-> initial, states |-> {initial}, transitions |-> {}, finals |-> {}]

add_state(fa, state) == [fa EXCEPT !.states = @ \cup {state}]

add_transition(fa, transition) == [fa EXCEPT !.transitions = @ \cup {transition}]

set_final(fa, state) == [fa EXCEPT !.finals = @ \cup {state}]

get_transitions_from(fa, state) == {t \in fa.transitions : t[1] = state}

\* variant: the label of a copied transition is lost (it becomes epsilon)
Graft_unlabelled(outer, re) ==
    [outer EXCEPT !.states = @ \cup {t[1] : t \in re.transitions}
                                 \cup {t[3] : t \in re.transitions},
                  !.transitions = @ \cup {<<t[1], NoneTr, t[3]>> : t \in re.transitions}]

\* the loop that copies every transition of a sub-fragment, adding the end
\* points that the outer automaton does not contain yet
Graft(outer, re) ==
    [outer EXCEPT !.states = @ \cup {t[1] : t \in re.transitions}
                                 \cup {t[3] : t \in re.transitions},
                  !.transitions = @ \cup re.transitions]

\* variant: a sub-fragment gets a copy of the id range, the outer range is
\* not advanced
ids_after_cloned(ids, sub) == ids

\* fa.rs 161, 185: ids is passed as &mut, the sub-fragment's draws advance it
ids_after(ids, sub) == sub.ids

\* variant: the accepting states of an alternative are not linked to alt_final
AlternationEdges_no_exit(alt_initial, alt_final, re) ==
    {<<alt_initial, NoneTr, re.initial>>}

\* fa.rs 200, 201-207: the epsilon edges added for one alternative
AlternationEdges(alt_initial, alt_final, re) ==
    {<<alt_initial, NoneTr, re.initial>>}
        \cup {<<rf, NoneTr, alt_final>> : rf \in re.finals}

\* variant: every piece is entered from the accepting states of all the pieces
\* before it, the initial state included (prev_re_finals is extended instead
\* of replaced)
ConcatenationNext_accumulated(prev_re_finals, re) == prev_re_finals \cup re.finals

\* fa.rs 235-240: prev_re_finals becomes the accepting states of this piece
ConcatenationNext(prev_re_finals, re) == re.finals

\* fa.rs 232-234: the epsilon edges that enter one piece of a concatenation
ConcatenationEdges(prev_re_finals, re) ==
    {<<pf, NoneTr, re.initial>> : pf \in prev_re_finals}

\* fa.rs 242-244: the epsilon edges that leave the last piece
ConcatenationExit(prev_re_finals, cat_final) ==
    {<<pf, NoneTr, cat_final>> : pf \in prev_re_finals}

\* variant: no edge back from the accepting states to the initial state of
\* the repeated fragment
RepetitionEdges_no_loopback(rep_initial, rep_final, re) ==
    {<<rep_initial, NoneTr, re.initial>>}
        \cup {<<rf, NoneTr, rep_final>> : rf \in re.finals}
        \cup {<<rep_initial, NoneTr, rep_final>>}

\* variant: no edge from the initial to the accepting state (zero repetitions)
RepetitionEdges_no_skip(rep_initial, rep_final, re) ==
    {<<rep_initial, NoneTr, re.initial>>}
        \cup {<<rf, NoneTr, rep_final>> : rf \in re.finals}
        \cup {<<rf, NoneTr, re.initial>> : rf \in re.finals}

\* fa.rs 266, 267-274, 275: the epsilon edges added for a repetition
RepetitionEdges(rep_initial, rep_final, re) ==
    {<<rep_initial, NoneTr, re.initial>>}
        \cup {<<rf, NoneTr, rep_final>> : rf \in re.finals}
        \cup {<<rf, NoneTr, re.initial>> : rf \in re.finals}
        \cup {<<rep_initial, NoneTr, rep_final>>}

RECURSIVE from_re(_, _)
RECURSIVE AlternationLoop(_, _, _, _, _)
RECURSIVE ConcatenationLoop(_, _, _, _, _, _)

AlternationLoop(res, k, alt, alt_final, ids) ==
    IF k > Len(res) THEN [fa |-> alt, ids |-> ids]
    ELSE LET sub == from_re(res[k], ids)
             re == sub.fa
             a1 == Graft(alt, re)
             a2 == add_state(a1, re.initial)
             a3 == [a2 EXCEPT !.states = @ \cup re.finals,
                              !.transitions = @ \cup AlternationEdges(alt.initial, alt_final, re)]
         IN AlternationLoop(res, k + 1, a3, alt_final, ids_after(ids, sub))

ConcatenationLoop(res, k, cat, cat_final, prev_re_finals, ids) ==
    IF k > Len(res)
    THEN [fa |-> [cat EXCEPT !.transitions =
                     @ \cup ConcatenationExit(prev_re_finals, cat_final)],
          ids |-> ids]
    ELSE LET sub == from_re(res[k], ids)
             re == sub.fa
             c1 == Graft(cat, re)
             c2 == add_state(c1, re.initial)
             c3 == [c2 EXCEPT !.transitions = @ \cup ConcatenationEdges(prev_re_finals, re)]
             c4 == [c3 EXCEPT !.states = @ \cup re.finals]
         IN ConcatenationLoop(res, k + 1, c4, cat_final,
                              ConcatenationNext(prev_re_finals, re), ids_after(ids, sub))

from_re(re, ids) ==
    LET i == ids
        f == ids + 1
        base == set_final(add_state(FA_new(i), f), f)
    IN CASE re.type = "Epsilon" ->
              [fa |-> add_transition(base, <<i, NoneTr, f>>), ids |-> ids + 2]
         [] re.type = "Symbol" ->
              [fa |-> add_transition(base, <<i, re.symbol, f>>), ids |-> ids + 2]
         [] re.type = "Alternation" ->
              AlternationLoop(re.res, 1, base, f, ids + 2)
         [] re.type = "Concatenation" ->
              ConcatenationLoop(re.res, 1, base, f, {i}, ids + 2)
         [] re.type = "Repetition" ->
              LET sub == from_re(re.res[1], ids + 2)
                  inner == sub.fa
                  r1 == Graft(base, inner)
                  r2 == add_state(r1, inner.initial)
                  r3 == [r2 EXCEPT !.states = @ \cup inner.finals,
                                   !.transitions = @ \cup RepetitionEdges(i, f, inner)]
              IN [fa |-> r3, ids |-> ids_after(ids + 2, sub)]

\* ----------------------------------------------------- fa.rs get_closure
\* variant: the label of the transition is not looked at
closure_targets_any_label(fa, source, closure) ==
    {t[3] : t \in {u \in get_transitions_from(fa, source) : u[3] \notin closure}}

\* fa.rs 148-153: the targets pushed for one popped state
closure_targets(fa, source, closure) ==
    {t[3] : t \in {u \in get_transitions_from(fa, source) :
                      u[2] = NoneTr /\ u[3] \notin closure}}

RECURSIVE ClosureLoop(_, _, _)
ClosureLoop(fa, stack, closure) ==
    IF stack = <<>> THEN closure
    ELSE LET source == stack[Len(stack)]
             rest == SubSeq(stack, 1, Len(stack) - 1)
             closure1 == closure \cup {source}
             pushed == closure_targets(fa, source, closure1)
         IN ClosureLoop(fa, rest \o SetToSeq(pushed), closure1)

get_closure(fa, state) == ClosureLoop(fa, <<state>>, {})

\* ---------------------------------------------------------- fa.rs to_dfa
\* The DFA: states is the vertex list (index -> set of NFA states),
\* transitions a set of <<source index, symbol, target index>>.
contains_state(fa, data) ==
    IF \E ix \in 1..Len(fa.states) : fa.states[ix] = data
    THEN CHOOSE ix \in 1..Len(fa.states) : fa.states[ix] = data
    ELSE 0

\* variant: the epsilon (None) labels are not filtered out
transition_labels_unfiltered(outgoing) == {t[2] : t \in outgoing}

\* fa.rs 106: only the transitions that carry Some(label) are looked at
transition_labels(outgoing) == {t[2] : t \in outgoing} \ {NoneTr}

\* variant: a later transition on the same label replaces the closure found so
\* far instead of extending it
target_closure_of_replaced(enfa, outgoing, c) ==
    get_closure(enfa, (CHOOSE t \in {u \in outgoing : u[2] = c} : TRUE)[3])

\* variant: the targets themselves, without their closures
target_closure_of_unclosed(enfa, outgoing, c) ==
    {t[3] : t \in {u \in outgoing : u[2] = c}}

\* fa.rs 107-111: the closures of all the targets on one label, merged
target_closure_of(enfa, outgoing, c) ==
    UNION {get_closure(enfa, t[3]) : t \in {u \in outgoing : u[2] = c}}

\* variant: accepting only when every member is accepting
closure_is_final_all(enfa, source_closure) ==
    \A source \in source_closure : source \in enfa.finals

\* fa.rs 99-103: accepting when some member is accepting
closure_is_final(enfa, source_closure) ==
    \E source \in source_closure : source \in enfa.finals

\* variant: only one member's data is stored in the DFA state
closure_data_single(enfa, closure) == {CHOOSE state \in closure : TRUE}

\* fa.rs 96, 115-117, 123-126: the data of a DFA state is the set of the data
\* of the members of the closure (NFA states are identified by their data)
closure_data(enfa, closure) == {state \in enfa.states : state \in closure}

\* variant: a new target closure is pushed in the None arm and once more
\* after the match
worklist_push_twice(stack, is_new, target_closure) ==
    IF is_new THEN Append(Append(stack, target_closure), target_closure) ELSE stack

\* fa.rs 123-129: the target closure is pushed only in the arm where
\* contains_state found no DFA state for it
worklist_push(stack, is_new, target_closure) ==
    IF is_new THEN Append(stack, target_closure) ELSE stack

RECURSIVE DrainLoop(_, _, _, _, _, _)
DrainLoop(enfa, keys, target_closures, source_ix, stack, fa) ==
    IF keys = <<>> THEN [stack |-> stack, fa |-> fa]
    ELSE LET transition_data == Head(keys)
             target_closure == target_closures[transition_data]
             found == contains_state(fa, closure_data(enfa, target_closure))
             is_new == found = 0
             fa1 == IF is_new
                    THEN [fa EXCEPT !.states = Append(@, closure_data(enfa, target_closure))]
                    ELSE fa
             target_ix == IF is_new THEN Len(fa1.states) ELSE found
             stack1 == worklist_push(stack, is_new, target_closure)
             fa2 == add_transition(fa1, <<source_ix, transition_data, target_ix>>)
         IN DrainLoop(enfa, Tail(keys), target_closures, source_ix, stack1, fa2)

RECURSIVE ToDfaLoop(_, _, _)
ToDfaLoop(enfa, stack, fa) ==
    IF stack = <<>> THEN fa
    ELSE LET source_closure == stack[Len(stack)]
             rest == SubSeq(stack, 1, Len(stack) - 1)
             outgoing == UNION {get_transitions_from(enfa, source) : source \in source_closure}
             labels == transition_labels(outgoing)
             target_closures == [c \in labels |-> target_closure_of(enfa, outgoing, c)]
             is_final == closure_is_final(enfa, source_closure)
             found == contains_state(fa, closure_data(enfa, source_closure))
             fa0 == [fa EXCEPT !.popped = Append(@, source_closure)]
             fa1 == IF found = 0
                    THEN [fa0 EXCEPT !.states = Append(@, closure_data(enfa, source_closure))]
                    ELSE fa0
             source_ix == IF found = 0 THEN Len(fa1.states) ELSE found
             fa2 == IF is_final THEN set_final(fa1, source_ix) ELSE fa1
             drained == DrainLoop(enfa, SetToSeq(labels), target_closures, source_ix, rest, fa2)
         IN ToDfaLoop(enfa, drained.stack, drained.fa)

\* variant: the initial DFA state is the initial NFA state alone
initial_closure_of_bare(enfa) == {enfa.initial}

\* fa.rs 95-96: self.get_closure(self.get_initial())
initial_closure_of(enfa) == get_closure(enfa, enfa.initial)

\* the run of the worklist loop; popped is history: the closures taken off the
\* stack, in order
to_dfa_run(enfa) ==
    LET initial_closure == initial_closure_of(enfa)
    IN ToDfaLoop(enfa, <<initial_closure>>,
                 [initial |-> 1, states |-> <<closure_data(enfa, initial_closure)>>,
                  transitions |-> {}, finals |-> {}, popped |-> <<>>])

to_dfa(enfa) ==
    LET fa == to_dfa_run(enfa)
    IN [initial |-> fa.initial, states |-> fa.states,
        transitions |-> fa.transitions, finals |-> fa.finals]

\* ------------------------------------------------ dfa.rs DFA, From<NFA>
\* The DFA of dfa.rs: ix_to_st is the state list (a Vec, indexed here from 1
\* where the code counts from 0), st_to_ix the map state -> index,
\* transitions the map start index -> event -> end index, kept as the set of
\* its <<start, event, end>> entries.
SortedSeq(S) ==
    LET RECURSIVE Sorted(_)
        Sorted(R) == IF R = {} THEN <<>>
                     ELSE LET least == CHOOSE x \in R : \A y \in R : x <= y
                          IN <<least>> \o Sorted(R \ {least})
    IN Sorted(S)

\* the order of Option<char>: None first, then the characters
EventOrder == <<NoneTr, "A", "B", "C">>

DFA_new(initial) ==
    [st_to_ix |-> (initial :> 1), ix_to_st |-> <<initial>>, initial |-> 1,
     transitions |-> {}, finals |-> {}]

DFA_contains(dfa, state) == state \in DOMAIN dfa.st_to_ix

\* dfa.rs 31-42: the index of a new state is st_to_ix.len()
insert_internal(dfa, state) ==
    IF state \in DOMAIN dfa.st_to_ix
    THEN [dfa |-> dfa, ix |-> dfa.st_to_ix[state]]
    ELSE LET ix == Cardinality(DOMAIN dfa.st_to_ix) + 1
         IN [dfa |-> [dfa EXCEPT !.st_to_ix = (state :> ix) @@ @,
                                 !.ix_to_st = Append(@, state)],
             ix |-> ix]

\* BTreeMap::insert: the entry for (start, event) is replaced
insert_transition(dfa, start, event, end) ==
    LET s1 == insert_internal(dfa, start)
        s2 == insert_internal(s1.dfa, end)
    IN [s2.dfa EXCEPT !.transitions =
           {t \in @ : ~(t[1] = s1.ix /\ t[2] = event)} \cup {<<s1.ix, event, s2.ix>>}]

insert_final(dfa, state) ==
    LET s1 == insert_internal(dfa, state)
    IN [s1.dfa EXCEPT !.finals = @ \cup {s1.ix}]

\* nfa.get_grouped(start): the events leaving start, each with all its targets
get_grouped(nfa, start) ==
    LET events == SelectSeq(EventOrder,
                            LAMBDA e : \E t \in nfa.transitions : t[1] = start /\ t[2] = e)
    IN [k \in 1..Len(events) |->
           [event |-> events[k],
            end_set |-> {t[3] : t \in {u \in nfa.transitions :
                                           u[1] = start /\ u[2] = events[k]}}]]

\* dfa.rs 168-174
RECURSIVE GroupedLoop(_, _, _, _)
GroupedLoop(grouped, start_set, stack, dfa) ==
    IF grouped = <<>> THEN [stack |-> stack, dfa |-> dfa]
    ELSE LET event == Head(grouped).event
             end_set == Head(grouped).end_set
             stack1 == IF ~DFA_contains(dfa, end_set) THEN Append(stack, end_set) ELSE stack
             dfa1 == insert_transition(dfa, start_set, event, end_set)
         IN GroupedLoop(Tail(grouped), start_set, stack1, dfa1)

\* dfa.rs 167-178
RECURSIVE MemberLoop(_, _, _, _, _)
MemberLoop(nfa, members, start_set, stack, dfa) ==
    IF members = <<>> THEN [stack |-> stack, dfa |-> dfa]
    ELSE LET start == Head(members)
             grouped == GroupedLoop(get_grouped(nfa, start), start_set, stack, dfa)
             dfa1 == IF start \in nfa.finals
                     THEN insert_final(grouped.dfa, start_set)
                     ELSE grouped.dfa
         IN MemberLoop(nfa, Tail(members), start_set, grouped.stack, dfa1)

\* dfa.rs 166-179
RECURSIVE StartSetLoop(_, _, _)
StartSetLoop(nfa, stack, dfa) ==
    IF stack = <<>> THEN dfa
    ELSE LET start_set == stack[Len(stack)]
             rest == SubSeq(stack, 1, Len(stack) - 1)
             done == MemberLoop(nfa, SortedSeq(start_set), start_set, rest, dfa)
         IN StartSetLoop(nfa, done.stack, done.dfa)

\* dfa.rs 163-181
DFA_from(nfa) ==
    StartSetLoop(nfa, <<{nfa.initial}>>, DFA_new({nfa.initial}))

\* ------------------------------------------------------- nfa.rs NFA
\* st_ix and ix_st are the two maps of the state store, transitions the map
\* start index -> set of <<event, end index>>, finals a set of indices.
INIT_IX == 0

NFA_new(init_st) ==
    [st_ix |-> (init_st :> INIT_IX), ix_st |-> (INIT_IX :> init_st),
     transitions |-> (INIT_IX :> {}), finals |-> {}]

\* nfa.rs 47-49: Option<Ix>
NFA_ix(nfa, st) == IF st \in DOMAIN nfa.st_ix THEN <<nfa.st_ix[st]>> ELSE <<>>

\* nfa.rs 51-53: Option<&St>
NFA_st(nfa, ix) == IF ix \in DOMAIN nfa.ix_st THEN <<nfa.ix_st[ix]>> ELSE <<>>

\* variant: the state is stored under a new index without looking it up
NFA_insert_state_always_new(nfa, st) ==
    LET ix == Cardinality(DOMAIN nfa.st_ix)
    IN [nfa |-> [nfa EXCEPT !.st_ix = (st :> ix) @@ @,
                            !.ix_st = (ix :> st) @@ @,
                            !.transitions = (ix :> {}) @@ @],
        ix |-> ix]

\* nfa.rs 34-45
NFA_insert_state(nfa, st) ==
    IF NFA_ix(nfa, st) # <<>>
    THEN [nfa |-> nfa, ix |-> NFA_ix(nfa, st)[1]]
    ELSE LET ix == Cardinality(DOMAIN nfa.st_ix)
         IN [nfa |-> [nfa EXCEPT !.st_ix = (st :> ix) @@ @,
                                 !.ix_st = (ix :> st) @@ @,
                                 !.transitions = (ix :> {}) @@ @],
             ix |-> ix]

\* nfa.rs 63-70: <<nfa>>, or <<>> when get_mut(&start_ix).unwrap() panics;
\* end_ix is stored as it is given
NFA_insert_transition(nfa, start_ix, ev, end_ix) ==
    IF start_ix \notin DOMAIN nfa.transitions THEN <<>>
    ELSE <<[nfa EXCEPT !.transitions[start_ix] = @ \cup {<<ev, end_ix>>}]>>

\* nfa.rs 72-74: ix is stored as it is given
NFA_set_final(nfa, ix) == [nfa EXCEPT !.finals = @ \cup {ix}]

\* ------------------------------------------------- lib.rs TokenState
TokenState_new(uuid, token) == [uuid |-> uuid, sequence_number |-> 0, token |-> token]

visible(token_state) == token_state

\* variant: the tag is left in place
hidden_keeps_token(token_state) == token_state

hidden(token_state) == [token_state EXCEPT !.token = None]

\* The states of one production's fragment: the generator hands out the
\* sequence numbers in minting order; only the outermost accepting state
\* (minted second, with finals enabled) keeps the production's tag.
MintedState(uuid, token, n) ==
    LET token_state == [TokenState_new(uuid, token) EXCEPT !.sequence_number = n]
    IN IF n = 1 THEN visible(token_state) ELSE hidden(token_state)

\* ------------------------------------------- lib.rs TokenStateGenerator
\* variant: the sequence number is not advanced
increment_stuck(token_state) == token_state

increment(token_state) == [token_state EXCEPT !.sequence_number = @ + 1]

TokenStateGenerator_new(uuid, token) ==
    [token_state |-> TokenState_new(uuid, token), final_enabled |-> TRUE]

\* a minting call returns the state and leaves the generator advanced
next_final_enabled(g) ==
    [next |-> visible(g.token_state),
     generator |-> [g EXCEPT !.token_state = increment(@)]]

next_final_disabled(g) ==
    [next |-> hidden(g.token_state),
     generator |-> [g EXCEPT !.token_state = increment(@)]]

next_initial(g) ==
    [next |-> hidden(g.token_state),
     generator |-> [g EXCEPT !.token_state = increment(@)]]

next_ephemeral(g) ==
    [next |-> hidden(g.token_state),
     generator |-> [g EXCEPT !.token_state = increment(@)]]

\* variant: the flag is not consulted
next_final_ignores_flag(g) == next_final_enabled(g)

next_final(g) ==
    IF g.final_enabled THEN next_final_enabled(g) ELSE next_final_disabled(g)

disable_final(g) == [g EXCEPT !.final_enabled = FALSE]

enable_final(g) == [g EXCEPT !.final_enabled = TRUE]

as_enfa(re, uuid, token) ==
    LET fa == from_re(re, 0).fa
        m(n) == MintedState(uuid, token, n)
    IN [initial |-> m(fa.initial),
        states |-> {m(s) : s \in fa.states},
        transitions |-> {<<m(t[1]), t[2], m(t[3])>> : t \in fa.transitions},
        finals |-> {m(s) : s \in fa.finals}]

\* ------------------------------------------------ util.rs map! (BTreeMap)
\* variant: an existing binding is kept (the first declaration wins)
map_insert_keep_first(m, re, token) ==
    IF \E i \in 1..Len(m) : m[i].re = re
    THEN m
    ELSE Append(m, [re |-> re, token |-> token])

map_insert(m, re, token) ==
    IF \E i \in 1..Len(m) : m[i].re = re
    THEN [i \in 1..Len(m) |-> IF m[i].re = re THEN [re |-> re, token |-> token] ELSE m[i]]
    ELSE Append(m, [re |-> re, token |-> token])

RECURSIVE map(_)
map(decls) ==
    IF decls = <<>> THEN <<>>
    ELSE LET n == Len(decls)
         IN map_insert(map(SubSeq(decls, 1, n - 1)), decls[n][1], decls[n][2])

\* --------------------------------------------------- lexer.rs compile
\* variant: the transitions are copied, the states are not registered
subsume_states_dropped(alt, re) ==
    [alt EXCEPT !.transitions = @ \cup re.transitions]

subsume(alt, re) ==
    [alt EXCEPT !.states = @ \cup re.states, !.transitions = @ \cup re.transitions]

\* the state of alt that equals the given state of re: <<>> or <<state>>
states_contains_from(alt, re, state) ==
    IF state \in alt.states THEN <<state>> ELSE <<>>

\* variant: set_final is called with the index of the fragment's initial state
\* as well
mark_finals_and_initial(alt, re_initial_index, re_final_indices) ==
    [alt EXCEPT !.finals = @ \cup re_final_indices \cup {re_initial_index}]

\* lexer.rs 64-67: every accepting state of the fragment is marked accepting
mark_finals(alt, re_initial_index, re_final_indices) ==
    [alt EXCEPT !.finals = @ \cup re_final_indices]

\* The loop returns <<alt>>, or <<>> when an expect("state does not exist")
\* panicked.
RECURSIVE UnionLoop(_, _, _)
UnionLoop(res, k, alt) ==
    IF k > Len(res) THEN <<alt>>
    ELSE LET re == res[k]
             a1 == subsume(alt, re)
             re_initial_index == states_contains_from(a1, re, re.initial)
             re_final_indices == {states_contains_from(a1, re, re_final) :
                                     re_final \in re.finals}
         IN IF re_initial_index = <<>> \/ <<>> \in re_final_indices
            THEN <<>>
            ELSE LET a2 == add_transition(a1, <<alt.initial, NoneTr, re_initial_index[1]>>)
                     a3 == mark_finals(a2, re_initial_index[1],
                                       {found[1] : found \in re_final_indices})
                 IN UnionLoop(res, k + 1, a3)

\* lexer.rs 55-58: one fragment per production, each from its own generator;
\* uuids[j] is the uuid drawn by the generator of production j
Fragments(prods, uuids) ==
    [j \in 1..Len(prods) |-> as_enfa(prods[j].re, uuids[j], prods[j].token)]

\* uuids[Len(productions) + 1] is the uuid drawn for the union's initial state
UnionRun(prods, uuids) ==
    UnionLoop(Fragments(prods, uuids), 1,
              FA_new(TokenState_new(uuids[Len(prods) + 1], None)))

UnionEnfa(prods, uuids) == UnionRun(prods, uuids)[1]

CompiledDfa(prods, uuids) == to_dfa(UnionEnfa(prods, uuids))

\* variant: the DFA that compile built is not stored
Some_dropped(d) == <<>>

\* lexer.rs 69: self.dfa = Some(..)
Some(d) == <<d>>

\* variant: lex moves the DFA out of the lexer (Option::take)
Option_take(d) == <<>>

\* lexer.rs 73-74: lex borrows the lexer (&self, as_ref); what the dfa field
\* holds once the borrow has ended
Option_as_ref(d) == d

\* ---------------------------------------- Dfa accessors used by lex
\* variant: compile rebuilds the DFA on every invocation
dfa_is_none_always(d) == TRUE

dfa_is_none(d) == d = <<>>

\* variant: every state counts as accepting
is_final_always(d, state_index) == TRUE

is_final(d, state_index) == state_index \in d.finals

\* variant: an accepting state is left at once (shortest match)
transitions_contains_outgoing_eager(d, source_index, character) ==
    IF source_index \in d.finals
    THEN {}
    ELSE {t \in d.transitions : t[1] = source_index /\ t[2] = character}

transitions_contains_outgoing(d, source_index, character) ==
    {t \in d.transitions : t[1] = source_index /\ t[2] = character}

transitions_index(transition_set) == CHOOSE t \in transition_set : TRUE

\* iteration order of a BTreeSet<TokenState>: by uuid, then by sequence number
RECURSIVE states_index_iter(_)
states_index_iter(S) ==
    IF S = {} THEN <<>>
    ELSE LET least == CHOOSE x \in S : \A y \in S :
                          \/ x.uuid < y.uuid
                          \/ x.uuid = y.uuid /\ x.sequence_number <= y.sequence_number
         IN <<least>> \o states_index_iter(S \ {least})

\* variant: only the first member's tag is looked at
token_kind_loop_first_member(members, k, token_kind) ==
    IF members = <<>> THEN token_kind ELSE members[1].token

\* variant: the first non-absent tag wins, differing tags are not detected
RECURSIVE token_kind_loop_no_check(_, _, _)
token_kind_loop_no_check(members, k, token_kind) ==
    IF k > Len(members) THEN token_kind
    ELSE IF token_kind = None
         THEN token_kind_loop_no_check(members, k + 1, members[k].token)
         ELSE token_kind_loop_no_check(members, k + 1, token_kind)

\* lexer.rs 86-95 / 106-115: the loop that folds the members' tags
RECURSIVE token_kind_loop(_, _, _)
token_kind_loop(members, k, token_kind) ==
    IF k > Len(members) THEN token_kind
    ELSE IF token_kind = None
         THEN token_kind_loop(members, k + 1, members[k].token)
         ELSE IF members[k].token # None /\ members[k].token # token_kind
              THEN Panic
              ELSE token_kind_loop(members, k + 1, token_kind)

Token_new(kind, text_) == [kind |-> kind, text |-> text_]

\* variant: a token is pushed for a skipped lexeme too
push_token_always(tokens_, token_kind, token_text_) ==
    Append(tokens_, [kind |-> token_kind, text |-> token_text_])

\* lexer.rs 96-98 / 116-118
push_token(tokens_, token_kind, token_text_) ==
    IF token_kind # None THEN Append(tokens_, Token_new(token_kind, token_text_)) ELSE tokens_

\* variant: the character that stopped the lexeme is not put back
push_front_dropped(characters_, character) == characters_

push_front(characters_, character) == <<character>> \o characters_

NoResult == [status |-> "None", tokens |-> <<>>]
Ok(tokens_) == [status |-> "Ok", tokens |-> tokens_]
\* variant: an error value that carries a token list of its own
Err_with_tokens(kind) == [status |-> kind, tokens |-> <<[kind |-> kind, text |-> <<>>]>>]

Err(kind) == [status |-> kind, tokens |-> <<>>]
\* variant: a missing DFA yields an empty token list
NotCompiledResult_empty == Ok(<<>>)
NotCompiledResult == Err("NotCompiled")

\* ------------------------------------- simple-lexer grammar.rs front end
\* ParseTree::Token { token } and ParseTree::Nonterminal { nonterminal, children }
ParseTree_Token(kind, text_) ==
    [type |-> "Token", nonterminal |-> "", children |-> <<>>, kind |-> kind, text |-> text_]

ParseTree_Nonterminal(nonterminal, children) ==
    [type |-> "Nonterminal", nonterminal |-> nonterminal, children |-> children,
     kind |-> "", text |-> <<>>]

\* the regular expression a text of plain characters stands for
Re_new(chars) ==
    IF Len(chars) = 1 THEN Symbol(chars[1])
    ELSE Concatenation([j \in 1..Len(chars) |-> Symbol(chars[j])])

\* T::from_str for a token-kind enum with the variants X and Y
from_str(text_) ==
    IF text_ \in {<<"X">>, <<"Y">>}
    THEN [status |-> "Ok", value |-> text_[1]]
    ELSE [status |-> "Err", value |-> "not token kind"]

\* grammar.rs 72-79
as_expression(parse_tree_) ==
    IF parse_tree_.type = "Token" /\ parse_tree_.kind = "REGULAR_EXPRESSION"
    THEN [status |-> "Ok",
          value |-> Re_new(SubSeq(parse_tree_.text, 2, Len(parse_tree_.text) - 1))]
    ELSE [status |-> "Err", value |-> "not expression"]

\* grammar.rs 81-90
as_token_kind(parse_tree_) ==
    IF parse_tree_.type = "Token" /\ parse_tree_.kind = "TOKEN_KIND"
    THEN from_str(parse_tree_.text)
    ELSE [status |-> "Err", value |-> "not token kind"]

\* variant: a key that is already bound keeps its binding
RECURSIVE Map_extend_keep_bound(_, _)
Map_extend_keep_bound(productions_, other) ==
    IF other = <<>> THEN productions_
    ELSE Map_extend_keep_bound(
             map_insert_keep_first(productions_, Head(other).re, Head(other).token),
             Tail(other))

\* grammar.rs 56: Map::extend inserts every entry of the child's map
RECURSIVE Map_extend(_, _)
Map_extend(productions_, other) ==
    IF other = <<>> THEN productions_
    ELSE Map_extend(map_insert(productions_, Head(other).re, Head(other).token),
                    Tail(other))

\* grammar.rs 60-67: the one-entry map of a Production or Consumption
RuleAsProductions(parse_tree_) ==
    LET re == as_expression(parse_tree_.children[1])
    IN IF re.status = "Err" THEN re
       ELSE IF parse_tree_.nonterminal = "Production"
            THEN LET token == as_token_kind(parse_tree_.children[3])
                 IN IF token.status = "Err" THEN token
                    ELSE [status |-> "Ok",
                          value |-> <<[re |-> re.value, token |-> token.value]>>]
            ELSE [status |-> "Ok", value |-> <<[re |-> re.value, token |-> None]>>]

\* grammar.rs 54-58: the loop over the children of Root
RECURSIVE RootLoop(_, _, _)
RootLoop(children, k, productions_) ==
    IF k > Len(children) THEN [status |-> "Ok", value |-> productions_]
    ELSE LET child == RuleAsProductions(children[k])
         IN IF child.status = "Err" THEN child
            ELSE RootLoop(children, k + 1, Map_extend(productions_, child.value))

\* grammar.rs 49-70
as_productions(parse_tree_) ==
    IF parse_tree_.type = "Nonterminal"
    THEN IF parse_tree_.nonterminal = "Root"
         THEN RootLoop(parse_tree_.children, 1, <<>>)
         ELSE RuleAsProductions(parse_tree_)
    ELSE [status |-> "Err", value |-> "no productions"]

\* ------------------------------------------------------------ catalogues
A == Symbol("A")
B == Symbol("B")
C == Symbol("C")

Catalogues ==
    { << <<A, "KA">>, <<B, "KB">>, <<Repetition(C), None>> >>,
      << <<A, "KA">>, <<Concatenation(<<A, B>>), "KAB">>, <<B, "KB">> >>,
      << <<Concatenation(<<A, B>>), "KAB">>, <<B, "KB">> >>,
      << <<Concatenation(<<A, B>>), "X">>, <<Concatenation(<<A, B>>), "Y">> >>,
      << <<A, "X">>, <<Alternation(<<A, B>>), "Y">> >>,
      << <<A, "X">>, <<Concatenation(<<A, B, B>>), "Y">> >>,
      << <<A, "X">>, <<Alternation(<<A, B>>), None>> >>,
      << <<Repetition(A), "AR">>, <<B, "KB">> >>,
      << <<Repetition(Repetition(A)), "AR">>, <<B, "KB">> >>,
      << <<Repetition(C), None>>, <<Concatenation(<<A, B>>), "KAB">> >> }

Texts == UNION {[1..n -> Alphabet] : n \in 0..MaxLen}

\* an emit-and-restart that consumes nothing repeats forever; the history of
\* lexemes is cut off one past the longest run that makes progress
MaxLexemes == MaxLen + 2

\* ------------------------------------------------------------------ state
VARIABLES
    declared,      \* the catalogue as written, in declaration order
    productions,   \* Lexer.productions
    dfa,           \* Lexer.dfa: <<>> (None) or <<d>> (Some(d))
    compiles,      \* number of compile() invocations so far
    enfa,          \* history: the union epsilon-NFA compile built, <<>> or <<alt>>
    pc,            \* "idle", "loop" (inside lex), "done" (lex has returned)
    text,          \* the argument of the current lex call
    characters,    \* lex: the VecDeque of remaining characters
    token_text,    \* lex: the text of the current lexeme
    tokens,        \* lex: the tokens pushed so far
    source_index,  \* lex: the current DFA state
    result,        \* the value lex returned
    lexemes,       \* history: every lexeme emitted or skipped by this call
    generator,     \* a TokenStateGenerator under test: <<>> or <<g>>
    minted,        \* history: the last minting call, <<>> or <<[call, next, final_enabled]>>
    parse_tree,    \* the parse tree of a grammar text handed to the front end, or <<>>
    front_end,     \* what as_productions returned: <<>> or <<result>>
    regex,         \* the regex AST handed to ENFA::from
    built,         \* the epsilon-NFA from_re returned: <<>> or <<fa>>
    subset,        \* the DFA to_dfa returned for it: <<>> or <<fa>>
    popped,        \* history: the closures to_dfa took off its stack, in order
    closed,        \* the last get_closure call: <<>> or <<[state, closure]>>
    powerset,      \* the DFA that dfa.rs DFA::from returned: <<>> or <<dfa>>
    nfa_store,     \* an NFA of nfa.rs under construction: <<>> or <<nfa>>
    dfa_store,     \* a DFA of dfa.rs under construction: <<>> or <<dfa>>
    inserted       \* the last insertion into a store: <<>> or <<[store, st, ix]>>

vars == <<declared, productions, dfa, compiles, enfa, pc, text, characters,
          token_text, tokens, source_index, result, lexemes, generator, minted,
          parse_tree, front_end, regex, built, subset, popped, closed, powerset,
          nfa_store, dfa_store, inserted>>

lexerVars == <<declared, productions, dfa, compiles, enfa>>

scanVars == <<pc, text, characters, token_text, tokens, source_index, result, lexemes>>

generatorVars == <<generator, minted>>

\* no lexer under test
NoLexer ==
    /\ declared = <<>>
    /\ productions = <<>>
    /\ dfa = <<>>
    /\ compiles = 0
    /\ enfa = <<>>
    /\ pc = "idle"
    /\ text = <<>>
    /\ characters = <<>>
    /\ token_text = <<>>
    /\ tokens = <<>>
    /\ source_index = 0
    /\ result = [status |-> "None", tokens |-> <<>>]
    /\ lexemes = <<>>

\* no generator under test
NoGenerator == generator = <<>> /\ minted = <<>>

grammarVars == <<parse_tree, front_end>>

\* no grammar text under way
NoGrammar == parse_tree = <<>> /\ front_end = <<>>

faVars == <<regex, built, subset, popped, closed, powerset>>

\* no regex under construction
NoFa ==
    /\ regex = <<>>
    /\ built = <<>>
    /\ subset = <<>>
    /\ popped = <<>>
    /\ closed = <<>>
    /\ powerset = <<>>

storeVars == <<nfa_store, dfa_store, inserted>>

\* no state store under construction
NoStore == nfa_store = <<>> /\ dfa_store = <<>> /\ inserted = <<>>

Init ==
    /\ declared \in Catalogues
    /\ productions = map(declared)
    /\ dfa = <<>>
    /\ compiles = 0
    /\ enfa = <<>>
    /\ pc = "idle"
    /\ text = <<>>
    /\ characters = <<>>
    /\ token_text = <<>>
    /\ tokens = <<>>
    /\ source_index = 0
    /\ result = NoResult
    /\ lexemes = <<>>
    /\ NoGenerator
    /\ NoGrammar
    /\ NoFa
    /\ NoStore

\* lexer.rs 53-71
Compile ==
    /\ pc = "idle"
    /\ compiles < MaxCompiles
    /\ compiles' = compiles + 1
    /\ IF dfa_is_none(dfa)
       THEN \E uuids \in Permutations(1..(Len(productions) + 1)) :
                IF UnionRun(productions, uuids) = <<>>
                THEN /\ pc' = "panicked"
                     /\ UNCHANGED <<dfa, enfa>>
                ELSE /\ dfa' = Some(CompiledDfa(productions, uuids))
                     /\ enfa' = <<UnionEnfa(productions, uuids)>>
                     /\ pc' = pc
       ELSE UNCHANGED <<dfa, enfa, pc>>
    /\ UNCHANGED <<declared, productions, text, characters, token_text,
                   tokens, source_index, result, lexemes>>
    /\ UNCHANGED <<generatorVars, grammarVars, faVars, storeVars>>

\* lexer.rs 73-78 and 121
Lex(t) ==
    /\ pc = "idle"
    /\ text' = t
    /\ tokens' = <<>>
    /\ token_text' = <<>>
    /\ lexemes' = <<>>
    /\ IF dfa = <<>>
       THEN /\ pc' = "done"
            /\ result' = NotCompiledResult
            /\ characters' = <<>>
            /\ source_index' = 0
       ELSE /\ pc' = "loop"
            /\ result' = NoResult
            /\ characters' = t
            /\ source_index' = dfa[1].initial
    /\ UNCHANGED lexerVars
    /\ UNCHANGED <<generatorVars, grammarVars, faVars, storeVars>>

\* lexer.rs 79-83
LexAdvance ==
    /\ pc = "loop"
    /\ characters # <<>>
    /\ LET character == Head(characters)
           found == transitions_contains_outgoing(dfa[1], source_index, character)
       IN /\ found # {}
          /\ token_text' = Append(token_text, character)
          /\ source_index' = transitions_index(found)[3]
          /\ characters' = Tail(characters)
    /\ UNCHANGED <<lexerVars, pc, text, tokens, result, lexemes>>
    /\ UNCHANGED <<generatorVars, grammarVars, faVars, storeVars>>

\* lexer.rs 84-101
LexRestart ==
    /\ pc = "loop"
    /\ characters # <<>>
    /\ Len(lexemes) < MaxLexemes
    /\ LET character == Head(characters)
           found == transitions_contains_outgoing(dfa[1], source_index, character)
           token_kind == token_kind_loop(
                             states_index_iter(dfa[1].states[source_index]), 1, None)
       IN /\ found = {}
          /\ is_final(dfa[1], source_index)
          /\ IF token_kind = Panic
             THEN /\ pc' = "done"
                  /\ result' = Err(Panic)
                  /\ UNCHANGED <<tokens, token_text, characters, source_index, lexemes>>
             ELSE /\ tokens' = push_token(tokens, token_kind, token_text)
                  /\ lexemes' = Append(lexemes, Token_new(token_kind, token_text))
                  /\ token_text' = <<>>
                  /\ characters' = push_front(Tail(characters), character)
                  /\ source_index' = dfa[1].initial
                  /\ UNCHANGED <<pc, result>>
    /\ UNCHANGED <<lexerVars, text>>
    /\ UNCHANGED <<generatorVars, grammarVars, faVars, storeVars>>

\* lexer.rs 102
LexPartialMatch ==
    /\ pc = "loop"
    /\ characters # <<>>
    /\ transitions_contains_outgoing(dfa[1], source_index, Head(characters)) = {}
    /\ ~is_final(dfa[1], source_index)
    /\ pc' = "done"
    /\ result' = Err("PartialMatch")
    /\ UNCHANGED <<lexerVars, text, characters, token_text, tokens, source_index, lexemes>>
    /\ UNCHANGED <<generatorVars, grammarVars, faVars, storeVars>>

\* lexer.rs 105-120
LexEnd ==
    /\ pc = "loop"
    /\ characters = <<>>
    /\ pc' = "done"
    /\ IF is_final(dfa[1], source_index)
       THEN LET token_kind == token_kind_loop(
                                  states_index_iter(dfa[1].states[source_index]), 1, None)
            IN IF token_kind = Panic
               THEN /\ result' = Err(Panic)
                    /\ UNCHANGED <<tokens, lexemes>>
               ELSE /\ tokens' = push_token(tokens, token_kind, token_text)
                    /\ lexemes' = Append(lexemes, Token_new(token_kind, token_text))
                    /\ result' = Ok(tokens')
       ELSE /\ result' = Err("PartialMatch")
            /\ UNCHANGED <<tokens, lexemes>>
    /\ UNCHANGED <<lexerVars, text, characters, token_text, source_index>>
    /\ UNCHANGED <<generatorVars, grammarVars, faVars, storeVars>>

\* the caller takes the result; the locals of lex are gone
LexReturn ==
    /\ pc = "done"
    /\ pc' = "idle"
    /\ text' = <<>>
    /\ characters' = <<>>
    /\ token_text' = <<>>
    /\ tokens' = <<>>
    /\ source_index' = 0
    /\ result' = NoResult
    /\ lexemes' = <<>>
    /\ dfa' = Option_as_ref(dfa)
    /\ UNCHANGED <<declared, productions, compiles, enfa>>
    /\ UNCHANGED <<generatorVars, grammarVars, faVars, storeVars>>

Next ==
    \/ Compile
    \/ \E t \in Texts : Lex(t)
    \/ LexAdvance
    \/ LexRestart
    \/ LexPartialMatch
    \/ LexEnd
    \/ LexReturn

Spec == Init /\ [][Next]_vars

\* ------------------------------------- the TokenStateGenerator on its own
GeneratorTokens == {None, "KA", "KB"}
GeneratorUuids == {1, 2}

\* lib.rs 67-69
InitGenerator ==
    /\ NoLexer
    /\ \E uuid \in GeneratorUuids : \E token \in GeneratorTokens :
           generator = <<TokenStateGenerator_new(uuid, token)>>
    /\ minted = <<>>
    /\ NoGrammar
    /\ NoFa
    /\ NoStore

Minted(call, g, returned) ==
    /\ generator' = <<returned.generator>>
    /\ minted' = <<[call |-> call, next |-> returned.next,
                    final_enabled |-> g.final_enabled]>>

\* lib.rs 87-91
NextInitial ==
    /\ generator[1].token_state.sequence_number < MaxMinted
    /\ Minted("next_initial", generator[1], next_initial(generator[1]))
    /\ UNCHANGED <<lexerVars, scanVars, grammarVars, faVars, storeVars>>

\* lib.rs 93-97
NextEphemeral ==
    /\ generator[1].token_state.sequence_number < MaxMinted
    /\ Minted("next_ephemeral", generator[1], next_ephemeral(generator[1]))
    /\ UNCHANGED <<lexerVars, scanVars, grammarVars, faVars, storeVars>>

\* lib.rs 99-105
NextFinal ==
    /\ generator[1].token_state.sequence_number < MaxMinted
    /\ Minted("next_final", generator[1], next_final(generator[1]))
    /\ UNCHANGED <<lexerVars, scanVars, grammarVars, faVars, storeVars>>

\* lib.rs 107-110
DisableFinal ==
    /\ generator' = <<disable_final(generator[1])>>
    /\ UNCHANGED <<lexerVars, scanVars, grammarVars, faVars, storeVars, minted>>

\* lib.rs 112-115
EnableFinal ==
    /\ generator' = <<enable_final(generator[1])>>
    /\ UNCHANGED <<lexerVars, scanVars, grammarVars, faVars, storeVars, minted>>

NextGenerator ==
    \/ NextInitial
    \/ NextEphemeral
    \/ NextFinal
    \/ DisableFinal
    \/ EnableFinal

SpecGenerator == InitGenerator /\ [][NextGenerator]_vars

\* ------------------------------------------- the grammar front end on its own
Slash == "/"
RegexTexts == {<<Slash, "A", Slash>>, <<Slash, "B", Slash>>, <<Slash, "A", "B", Slash>>}
KindTexts == {<<"X">>, <<"Y">>, <<"Z">>}

REGULAR_EXPRESSION(text_) == ParseTree_Token("REGULAR_EXPRESSION", text_)
PRODUCTION_OPERATOR == ParseTree_Token("PRODUCTION_OPERATOR", <<"=", ">">>)
TOKEN_KIND(text_) == ParseTree_Token("TOKEN_KIND", text_)
SEMICOLON == ParseTree_Token("SEMICOLON", <<";">>)

\* Production ::= REGULAR_EXPRESSION PRODUCTION_OPERATOR TOKEN_KIND SEMICOLON;
\* Consumption ::= REGULAR_EXPRESSION PRODUCTION_OPERATOR SEMICOLON;
Rules ==
    {ParseTree_Nonterminal("Production",
         <<REGULAR_EXPRESSION(r), PRODUCTION_OPERATOR, TOKEN_KIND(k), SEMICOLON>>) :
         <<r, k>> \in RegexTexts \X KindTexts}
    \cup {ParseTree_Nonterminal("Consumption",
              <<REGULAR_EXPRESSION(r), PRODUCTION_OPERATOR, SEMICOLON>>) : r \in RegexTexts}

\* Root ::= (Production | Consumption)*;
ParseTrees ==
    {ParseTree_Nonterminal("Root", children) :
        children \in UNION {[1..n -> Rules] : n \in 0..MaxDecls}}

InitGrammar ==
    /\ NoLexer
    /\ NoGenerator
    /\ parse_tree \in ParseTrees
    /\ front_end = <<>>
    /\ NoFa
    /\ NoStore

\* grammar.rs 49-70
AsProductions ==
    /\ front_end = <<>>
    /\ front_end' = <<as_productions(parse_tree)>>
    /\ UNCHANGED <<lexerVars, scanVars, generatorVars, faVars, storeVars, parse_tree>>

NextGrammar == AsProductions

SpecGrammar == InitGrammar /\ [][NextGrammar]_vars

\* ------------------------------------ regex -> epsilon-NFA -> DFA on its own
FaAlphabet == {"A", "B"}

FaTexts == UNION {[1..n -> FaAlphabet] : n \in 0..MaxLen}

\* the regex ASTs of exactly n nodes, and the non-empty lists of ASTs of n
\* nodes in all
RECURSIVE REs(_)
RECURSIVE RELists(_)
REs(n) ==
    IF n = 1
    THEN {Epsilon, Alternation(<<>>), Concatenation(<<>>)} \cup {Symbol(c) : c \in FaAlphabet}
    ELSE {Repetition(r) : r \in REs(n - 1)}
         \cup {Alternation(rs) : rs \in RELists(n - 1)}
         \cup {Concatenation(rs) : rs \in RELists(n - 1)}

RELists(n) ==
    {<<r>> : r \in REs(n)}
        \cup UNION {{<<r>> \o rs : <<r, rs>> \in REs(k) \X RELists(n - k)} : k \in 1..(n - 1)}

Regexes == UNION {REs(n) : n \in 1..MaxNodes}

InitFa ==
    /\ NoLexer
    /\ NoGenerator
    /\ NoGrammar
    /\ regex \in Regexes
    /\ built = <<>>
    /\ subset = <<>>
    /\ popped = <<>>
    /\ closed = <<>>
    /\ powerset = <<>>
    /\ NoStore

\* fa.rs 282-286: ENFA::from(re)
FromRe ==
    /\ built = <<>>
    /\ built' = <<from_re(regex, 0).fa>>
    /\ UNCHANGED <<lexerVars, scanVars, generatorVars, grammarVars, storeVars,
                   regex, subset, popped, closed, powerset>>

\* fa.rs 143-157
GetClosure(state) ==
    /\ built # <<>>
    /\ state \in built[1].states
    /\ closed' = <<[state |-> state, closure |-> get_closure(built[1], state)]>>
    /\ UNCHANGED <<lexerVars, scanVars, generatorVars, grammarVars, storeVars,
                   regex, built, subset, popped, powerset>>

\* fa.rs 94-135
ToDfa ==
    /\ built # <<>>
    /\ subset = <<>>
    /\ subset' = <<to_dfa(built[1])>>
    /\ popped' = to_dfa_run(built[1]).popped
    /\ UNCHANGED <<lexerVars, scanVars, generatorVars, grammarVars, storeVars,
                   regex, built, closed, powerset>>

\* dfa.rs 158-182
DfaFromNfa ==
    /\ built # <<>>
    /\ powerset = <<>>
    /\ powerset' = <<DFA_from(built[1])>>
    /\ UNCHANGED <<lexerVars, scanVars, generatorVars, grammarVars, storeVars,
                   regex, built, subset, popped, closed>>

NextFa ==
    \/ FromRe
    \/ \E state \in 0..(2 * MaxNodes - 1) : GetClosure(state)
    \/ ToDfa
    \/ DfaFromNfa

SpecFa == InitFa /\ [][NextFa]_vars

\* ------------------------------------------ the state stores on their own
StoreIdentities == 1..MaxStored

\* the indices handed to insert_transition and set_final: Ix is usize, one
\* value more than a store of MaxStored states can hold
StoreIndices == 0..MaxStored

StoreEvents == {NoneTr, "A"}

\* a call on the NFA has panicked
StorePanicked == inserted # <<>> /\ inserted[1].store = "panicked"

\* the number of transitions in the NFA store
StoredEdges ==
    LET RECURSIVE Count(_)
        Count(keys) ==
            IF keys = {} THEN 0
            ELSE LET key == CHOOSE k \in keys : TRUE
                 IN Cardinality(nfa_store[1].transitions[key]) + Count(keys \ {key})
    IN Count(DOMAIN nfa_store[1].transitions)

\* nfa.rs 24-32, dfa.rs 20-29: one store is constructed, an NFA or a DFA; the
\* two types share nothing, so a run exercises one of them
InitStore ==
    /\ NoLexer
    /\ NoGenerator
    /\ NoGrammar
    /\ NoFa
    /\ \/ /\ \E st \in StoreIdentities : nfa_store = <<NFA_new(st)>>
          /\ dfa_store = <<>>
       \/ /\ nfa_store = <<>>
          /\ \E st \in StoreIdentities : dfa_store = <<DFA_new(st)>>
    /\ inserted = <<>>

\* nfa.rs 34-45
NfaInsertState(st) ==
    /\ nfa_store # <<>>
    /\ ~StorePanicked
    /\ LET returned == NFA_insert_state(nfa_store[1], st)
       IN /\ nfa_store' = <<returned.nfa>>
          /\ inserted' = <<[store |-> "nfa", st |-> st, ix |-> returned.ix]>>
    /\ UNCHANGED <<lexerVars, scanVars, generatorVars, grammarVars, faVars, dfa_store>>

\* nfa.rs 63-70
NfaInsertTransition(start_ix, ev, end_ix) ==
    /\ nfa_store # <<>>
    /\ ~StorePanicked
    /\ StoredEdges < MaxEdges
    /\ LET returned == NFA_insert_transition(nfa_store[1], start_ix, ev, end_ix)
       IN IF returned = <<>>
          THEN /\ inserted' = <<[store |-> "panicked", st |-> 0, ix |-> start_ix]>>
               /\ UNCHANGED nfa_store
          ELSE /\ nfa_store' = returned
               /\ UNCHANGED inserted
    /\ UNCHANGED <<lexerVars, scanVars, generatorVars, grammarVars, faVars, dfa_store>>

\* nfa.rs 72-74
NfaSetFinal(ix) ==
    /\ nfa_store # <<>>
    /\ ~StorePanicked
    /\ nfa_store' = <<NFA_set_final(nfa_store[1], ix)>>
    /\ UNCHANGED <<lexerVars, scanVars, generatorVars, grammarVars, faVars,
                   dfa_store, inserted>>

\* dfa.rs 31-42, 44-46
DfaInsert(st) ==
    /\ dfa_store # <<>>
    /\ ~StorePanicked
    /\ LET returned == insert_internal(dfa_store[1], st)
       IN /\ dfa_store' = <<returned.dfa>>
          /\ inserted' = <<[store |-> "dfa", st |-> st, ix |-> returned.ix]>>
    /\ UNCHANGED <<lexerVars, scanVars, generatorVars, grammarVars, faVars, nfa_store>>

NextStore ==
    \/ \E st \in StoreIdentities : NfaInsertState(st)
    \/ \E start_ix, end_ix \in StoreIndices : \E ev \in StoreEvents :
           NfaInsertTransition(start_ix, ev, end_ix)
    \/ \E ix \in StoreIndices : NfaSetFinal(ix)
    \/ \E st \in StoreIdentities : DfaInsert(st)

SpecStore == InitStore /\ [][NextStore]_vars

\* ------------------------------------------------- reference definitions
\* (what the properties are measured against; they read the DFA's tables
\* directly and use none of the scanner's accessors)
RECURSIVE RunFrom(_, _, _)
RunFrom(d, ix, w) ==
    IF ix = 0 \/ w = <<>> THEN ix
    ELSE LET T == {t \in d.transitions : t[1] = ix /\ t[2] = Head(w)}
         IN IF T = {} THEN 0 ELSE RunFrom(d, (CHOOSE t \in T : TRUE)[3], Tail(w))

Accepts(d, w) == RunFrom(d, d.initial, w) \in d.finals

Prefix(w, n) == SubSeq(w, 1, n)

LexemeTexts == [j \in 1..Len(lexemes) |-> lexemes[j].text]

Emitted == Flatten(LexemeTexts)

ConsumedPrefix == SubSeq(text, 1, Len(text) - Len(characters))

\* the characters consumed since the last restart
SinceRestart == SubSeq(text, Len(Emitted) + 1, Len(text) - Len(characters))

Tags(d, ix) == {m.token : m \in d.states[ix]} \ {None}

NoMove(d, ix, c) == ~ \E t \in d.transitions : t[1] = ix /\ t[2] = c

CannotContinue ==
    /\ pc = "loop"
    /\ characters = <<>> \/ NoMove(dfa[1], source_index, Head(characters))

EmitsHere == CannotContinue /\ source_index \in dfa[1].finals

TokensOf(ls) == SelectSeq(ls, LAMBDA l : l.kind # None)

\* the lengths of the non-empty prefixes of the current lexeme that reach an
\* accepting state
Checkpoints == {n \in 1..Len(SinceRestart) : Accepts(dfa[1], Prefix(SinceRestart, n))}

Max(S) == CHOOSE x \in S : \A y \in S : y <= x
Min(S) == CHOOSE x \in S : \A y \in S : x <= y

\* ------------------------------------------------------------------ C1
\* C1: in a scan that returned Ok, every lexeme (token or skipped) is the
\* longest prefix of the input remaining at its start that the DFA accepts.
C1_LongestPrefix ==
    (pc = "done" /\ result.status = "Ok") =>
        \A k \in 1..Len(lexemes) :
            LET start == Len(Flatten(SubSeq(LexemeTexts, 1, k - 1)))
                remaining == SubSeq(text, start + 1, Len(text))
                w == lexemes[k].text
            IN /\ Len(w) <= Len(remaining)
               /\ w = Prefix(remaining, Len(w))
               /\ Accepts(dfa[1], w)
               /\ \A n \in (Len(w) + 1)..Len(remaining) :
                      ~Accepts(dfa[1], Prefix(remaining, n))

\* an Ok scan of several lexemes in which a lexeme has a shorter accepted prefix
C1_Witness ==
    /\ pc = "done"
    /\ result.status = "Ok"
    /\ Len(lexemes) >= 2
    /\ \E k \in 1..Len(lexemes) : \E n \in 1..(Len(lexemes[k].text) - 1) :
           Accepts(dfa[1], Prefix(lexemes[k].text, n))

\* ------------------------------------------------------------------ C2
C2Case ==
    /\ CannotContinue
    /\ source_index \notin dfa[1].finals
    /\ Checkpoints # {}

C3_AgreedKind ==
    [][(EmitsHere /\ Cardinality(Tags(dfa[1], source_index)) = 1) =>
         tokens' = Append(tokens,
                          [kind |-> CHOOSE k \in Tags(dfa[1], source_index) : TRUE,
                           text |-> SinceRestart])]_vars

\* a token was pushed from a state that holds absent tags beside the kind
C3_Witness ==
    /\ pc = "loop"
    /\ tokens # <<>>
    /\ LET last == tokens[Len(tokens)]
           ix == RunFrom(dfa[1], dfa[1].initial, last.text)
       IN /\ last.text # <<>>
          /\ ix # 0
          /\ Tags(dfa[1], ix) = {last.kind}
          /\ \E m \in dfa[1].states[ix] : m.token = None

\* ------------------------------------------------------------------ C4
\* C4: emitting at an accepting state all of whose tags are absent pushes no
\* token, drops the lexeme and resumes from the initial state at the first
\* character after it (at the end of the input: returns Ok without a token).
C4_SkipEmitsNothing ==
    [][(EmitsHere /\ Tags(dfa[1], source_index) = {}) =>
         /\ tokens' = tokens
         /\ IF characters # <<>>
            THEN /\ pc' = "loop"
                 /\ token_text' = <<>>
                 /\ source_index' = dfa[1].initial
                 /\ characters' = characters
            ELSE /\ pc' = "done"
                 /\ result' = [status |-> "Ok", tokens |-> tokens]]_vars

C4_Witness ==
    /\ pc = "loop"
    /\ lexemes # <<>>
    /\ lexemes[Len(lexemes)].kind = None
    /\ lexemes[Len(lexemes)].text # <<>>
    /\ token_text = <<>>
    /\ characters # <<>>
    /\ source_index = dfa[1].initial

\* ------------------------------------------------------------------ C5
DeclaredKinds == {declared[j][2] : j \in 1..Len(declared)}

EarliestDeclared(kinds) == declared[Min({j \in 1..Len(declared) : declared[j][2] \in kinds})][2]

C5Case == EmitsHere /\ Cardinality(Tags(dfa[1], source_index)) >= 2

DeclaresTwice ==
    /\ Len(declared) = 2
    /\ declared[1][1] = declared[2][1]
    /\ declared[1][2] # declared[2][2]

C6Case ==
    /\ DeclaresTwice
    /\ pc = "done"
    /\ result.status = "Ok"
    /\ Len(result.tokens) = 1

\* C6 (as claimed): the same regex declared with kinds X then Y lexes a
\* matching input to one token of kind X.
C6_FirstDeclaredKind ==
    C6Case => result.tokens = <<[kind |-> declared[1][2], text |-> text]>>

\* C6 (amended): ... to one token of kind Y, the kind declared last.
C6_LastDeclaredKind ==
    C6Case => result.tokens = <<[kind |-> declared[2][2], text |-> text]>>

C6_Witness == C6Case /\ text # <<>>

\* ------------------------------------------------------------------ C7
\* C7: the texts of the tokens and skipped lexemes, in order, are exactly
\* the consumed prefix of the input (with the lexeme under way), the whole
\* input when the scan returns Ok; the tokens are the lexemes not skipped.
C7_RoundTrip ==
    /\ pc = "loop" => Emitted \o token_text = ConsumedPrefix
    /\ pc \in {"loop", "done"} => tokens = TokensOf(lexemes)
    /\ (pc = "done" /\ result.status = "Ok") =>
           /\ Emitted = text
           /\ result.tokens = TokensOf(lexemes)

C7_Witness ==
    /\ pc = "done"
    /\ result.status = "Ok"
    /\ Len(lexemes) >= 3
    /\ \E k \in 1..Len(lexemes) : lexemes[k].kind = None /\ lexemes[k].text # <<>>
    /\ \E k \in 1..Len(lexemes) : lexemes[k].kind # None

\* ------------------------------------------------------------------ C8
C8Case ==
    /\ pc = "loop"
    /\ characters # <<>>
    /\ NoMove(dfa[1], source_index, Head(characters))
    /\ \A n \in 0..Len(SinceRestart) : ~Accepts(dfa[1], Prefix(SinceRestart, n))

\* C8: no transition on the current character and no accepting state since
\* the last restart: lex returns PartialMatch and pushes nothing more.
C8_PartialMatch ==
    [][C8Case =>
         /\ pc' = "done"
         /\ result' = [status |-> "PartialMatch", tokens |-> <<>>]
         /\ tokens' = tokens
         /\ lexemes' = lexemes]_vars

\* productions AB and B, input "AC": failed with "C" (offset 1) in hand
C8_Witness ==
    /\ declared = << <<Concatenation(<<A, B>>), "KAB">>, <<B, "KB">> >>
    /\ text = <<"A", "C">>
    /\ pc = "done"
    /\ result.status = "PartialMatch"
    /\ characters = <<"C">>
    /\ tokens = <<>>

\* ------------------------------------------------------------------ C9
\* C9: lex on a lexer that was never compiled returns NotCompiled and no token.
C9_NotCompiled ==
    (pc = "done" /\ compiles = 0) =>
        /\ result = [status |-> "NotCompiled", tokens |-> <<>>]
        /\ tokens = <<>>

C9_Witness == pc = "done" /\ compiles = 0 /\ Len(text) = MaxLen

\* ------------------------------------------------------------------ C10
\* C10: compile on a compiled lexer leaves the stored DFA as it is (so every
\* later lex runs on the DFA of the first compile).
C10_CompileIdempotent == [][dfa # <<>> => dfa' = dfa]_vars

C10_Witness ==
    /\ compiles = 2
    /\ pc = "done"
    /\ result.status = "Ok"
    /\ result.tokens # <<>>

\* ------------------------------------------------------------------ C11
\* C11: the DFA is absent in every state before the first compile and
\* present in every state after it; once present it is neither reset to
\* absent nor replaced by another DFA, whatever is invoked.
C11_DfaLifecycle ==
    /\ [](compiles = 0 <=> dfa = <<>>)
    /\ [][dfa # <<>> => (dfa' # <<>> /\ dfa'[1] = dfa[1])]_vars

\* compiled once, and a scan has consumed the whole of a non-empty text
C11_Witness ==
    /\ compiles = 1
    /\ dfa # <<>>
    /\ pc = "loop"
    /\ text # <<>>
    /\ characters = <<>>

\* ------------------------------------------------------------------ C12
\* what one scan of w returns, read off the DFA's tables alone: repeatedly
\* the longest prefix the DFA can follow, which must end in an accepting
\* state whose tags agree
RECURSIVE Rescan(_, _, _, _)
Rescan(d, w, toks, fuel) ==
    LET n == Max({k \in 0..Len(w) : RunFrom(d, d.initial, Prefix(w, k)) # 0})
        ix == RunFrom(d, d.initial, Prefix(w, n))
        kinds == Tags(d, ix)
        toks1 == IF kinds = {} THEN toks
                 ELSE Append(toks, [kind |-> CHOOSE k \in kinds : TRUE, text |-> Prefix(w, n)])
    IN IF ix \notin d.finals THEN [status |-> "PartialMatch", tokens |-> <<>>]
       ELSE IF Cardinality(kinds) >= 2 THEN [status |-> "Panic", tokens |-> <<>>]
       ELSE IF n = Len(w) THEN [status |-> "Ok", tokens |-> toks1]
       ELSE IF fuel = 0 THEN [status |-> "Diverges", tokens |-> <<>>]
       ELSE Rescan(d, SubSeq(w, n + 1, Len(w)), toks1, fuel - 1)

\* a step of lex: every step but compile, which is the one taken from idle to idle
LexStep == pc # "idle" \/ pc' # "idle"

C13Case ==
    /\ pc = "done"
    /\ result.status \notin {"Ok", "None"}
    /\ tokens # <<>>

\* C13 (as claimed): a scan that fails after tokens were pushed hands those
\* tokens to the caller together with the error.
C13_ErrorKeepsTokens == C13Case => result.tokens = tokens

\* C13 (amended): a scan that fails after tokens were pushed returns the
\* error alone; the tokens pushed before it are not part of the result.
C13_ErrorDropsTokens == C13Case => result = [status |-> result.status, tokens |-> <<>>]

\* productions A, AB, B on "AC" fail at "C" with the token for "A" in hand
C13_Witness ==
    /\ C13Case
    /\ result.status = "PartialMatch"
    /\ Len(tokens) >= 1
    /\ characters # <<>>

\* ------------------------------------------------------------------ C14
C14Case ==
    /\ pc = "loop"
    /\ characters = <<>>
    /\ token_text = <<>>
    /\ source_index = dfa[1].initial
    /\ source_index \notin dfa[1].finals

\* C14 (as claimed): the input ends with an empty lexeme in a non-accepting
\* initial state (the empty text): lex returns Ok with the tokens so far.
C14_EmptyLexemeAtEndIsOk ==
    [][C14Case => (pc' = "done" /\ result' = [status |-> "Ok", tokens |-> tokens])]_vars

\* ------------------------------------ reference: the epsilon-NFA's own runs
\* (fixpoints over the transition relation; none of the construction's
\* operators is used)
RECURSIVE EClose(_, _)
EClose(fa, S) ==
    LET S1 == S \cup {t[3] : t \in {u \in fa.transitions : u[1] \in S /\ u[2] = NoneTr}}
    IN IF S1 = S THEN S ELSE EClose(fa, S1)

RECURSIVE NfaReach(_, _)
NfaReach(fa, w) ==
    IF w = <<>> THEN EClose(fa, {fa.initial})
    ELSE LET before == NfaReach(fa, SubSeq(w, 1, Len(w) - 1))
             c == w[Len(w)]
         IN EClose(fa, {t[3] : t \in {u \in fa.transitions : u[1] \in before /\ u[2] = c}})

NfaAccepts(fa, w) == NfaReach(fa, w) \cap fa.finals # {}

HasEpsilonCycle(fa) ==
    \E t \in fa.transitions : t[2] = NoneTr /\ t[1] \in EClose(fa, {t[3]})

\* the state in which compile has just returned: dfa holds to_dfa(enfa)
Produced == dfa # <<>> /\ pc = "idle"

\* ------------------------------------------------------------------ C15
\* C15: in a DFA that to_dfa produced, a state has at most one outgoing
\* transition per input symbol and no transition is labelled epsilon.
C15_Deterministic ==
    Produced =>
        LET d == dfa[1]
        IN /\ \A t \in d.transitions : \A u \in d.transitions :
                  (t[1] = u[1] /\ t[2] = u[2]) => t[3] = u[3]
           /\ \A t \in d.transitions :
                  /\ t[2] # NoneTr
                  /\ t[2] \in Alphabet
                  /\ t[1] \in 1..Len(d.states)
                  /\ t[3] \in 1..Len(d.states)

\* the epsilon-NFA had epsilon transitions and two transitions on one symbol
\* leaving the members of one DFA state
C15_Witness ==
    /\ Produced
    /\ \E ix \in 1..Len(dfa[1].states) : \E c \in Alphabet :
           /\ Cardinality({t \in enfa[1].transitions :
                              t[1] \in dfa[1].states[ix] /\ t[2] = c}) >= 2
           /\ \E t \in enfa[1].transitions : t[1] \in dfa[1].states[ix] /\ t[2] = NoneTr
           /\ \E t \in dfa[1].transitions : t[1] = ix /\ t[2] = c

\* ------------------------------------------------------------------ C16
\* C16: a state of the produced DFA (the initial one included) is accepting
\* if and only if one of the epsilon-NFA states it contains is accepting.
C16_AcceptingIffMember ==
    Produced =>
        \A ix \in 1..Len(dfa[1].states) :
            ix \in dfa[1].finals <=> dfa[1].states[ix] \cap enfa[1].finals # {}

\* an accepting initial state that also has non-accepting members, beside a
\* non-accepting state
C16_Witness ==
    /\ Produced
    /\ dfa[1].initial \in dfa[1].finals
    /\ dfa[1].states[dfa[1].initial] \ enfa[1].finals # {}
    /\ \E ix \in 1..Len(dfa[1].states) : ix \notin dfa[1].finals

\* ------------------------------------------------------------------ C17
\* C17: the DFA state reached on a string holds every epsilon-NFA state
\* reached on that string, tag included: a non-absent tag of a member of the
\* closure set is among the tags stored in the DFA state.
C17_CarriesMemberTags ==
    Produced =>
        \A w \in Texts :
            LET ix == RunFrom(dfa[1], dfa[1].initial, w)
                members == NfaReach(enfa[1], w)
            IN IF ix = 0 THEN members = {}
               ELSE /\ members \subseteq dfa[1].states[ix]
                    /\ \A m \in members :
                           m.token # None => m.token \in Tags(dfa[1], ix)

\* a DFA state built from a closure that holds two differently tagged members
\* and an untagged one
C17_Witness ==
    /\ Produced
    /\ \E w \in Texts :
           LET members == NfaReach(enfa[1], w)
           IN /\ Cardinality({m.token : m \in members} \ {None}) >= 2
              /\ \E m \in members : m.token = None

\* ------------------------------------------------------------------ C18
\* C18: the produced DFA accepts exactly the strings (up to the length bound)
\* that the epsilon-NFA it was built from accepts, epsilon cycles included.
C18_SameLanguage ==
    Produced => \A w \in Texts : Accepts(dfa[1], w) <=> NfaAccepts(enfa[1], w)

\* an epsilon-NFA with an epsilon cycle, accepting the empty string and a
\* string of the longest length and rejecting some string
C18_Witness ==
    /\ Produced
    /\ HasEpsilonCycle(enfa[1])
    /\ NfaAccepts(enfa[1], <<>>)
    /\ \E w \in Texts : Len(w) = MaxLen /\ NfaAccepts(enfa[1], w)
    /\ \E w \in Texts : ~NfaAccepts(enfa[1], w)

\* ------------------------------------------------------------------ C19
\* C19: whatever enable_final / disable_final and minting calls came before,
\* next_initial and next_ephemeral return a state without a tag, and
\* next_final returns the production's tag when finals are enabled at the
\* call and no tag when they are disabled.
C19_MintedTags ==
    minted # <<>> =>
        LET m == minted[1]
            production_tag == generator[1].token_state.token
        IN /\ m.call \in {"next_initial", "next_ephemeral"} => m.next.token = None
           /\ (m.call = "next_final" /\ m.final_enabled) => m.next.token = production_tag
           /\ (m.call = "next_final" /\ ~m.final_enabled) => m.next.token = None
           /\ m.next.uuid = generator[1].token_state.uuid
           /\ m.next.sequence_number = generator[1].token_state.sequence_number - 1

\* a tagged production's generator: finals were disabled, a state minted,
\* enabled again, and next_final then returned the tag
C19_Witness ==
    /\ minted # <<>>
    /\ minted[1].call = "next_final"
    /\ minted[1].final_enabled
    /\ minted[1].next.token # None
    /\ minted[1].next.sequence_number >= 2

\* ------------------------------------------------------------------ C20
\* the grammar text as written: the regex and the kind (or skip) of the
\* j-th declaration
DeclaredRe(j) ==
    LET chars == parse_tree.children[j].children[1].text
    IN Re_new(SubSeq(chars, 2, Len(chars) - 1))

DeclaredToken(j) ==
    IF parse_tree.children[j].nonterminal = "Consumption" THEN None
    ELSE parse_tree.children[j].children[3].text[1]

LastDeclaration(j) ==
    Max({i \in 1..Len(parse_tree.children) : DeclaredRe(i) = DeclaredRe(j)})

Bindings(m, re) == {m[i].token : i \in {n \in 1..Len(m) : m[n].re = re}}

C20Case == front_end # <<>> /\ front_end[1].status = "Ok"

\* C20: in the map as_productions returns, a regex declared more than once
\* (like every declared regex) is bound once, to the kind or skip of its last
\* declaration.
C20_LastBinding ==
    C20Case =>
        \A j \in 1..Len(parse_tree.children) :
            Bindings(front_end[1].value, DeclaredRe(j)) = {DeclaredToken(LastDeclaration(j))}

\* one regex declared three times, as a skip in between, with three different
\* bindings
C20_Witness ==
    /\ C20Case
    /\ Len(parse_tree.children) = 3
    /\ \A j \in 1..3 : DeclaredRe(j) = DeclaredRe(1)
    /\ Cardinality({DeclaredToken(j) : j \in 1..3}) = 3
    /\ DeclaredToken(2) = None

\* C21: the initial state of the DFA that to_dfa builds is the epsilon-closure
\* of the initial state of the NFA.
C21_InitialIsClosure ==
    subset # <<>> =>
        subset[1].states[subset[1].initial] = EClose(built[1], {built[1].initial})

\* to_dfa has run on an NFA whose initial state reaches others by epsilon
C21_Witness ==
    /\ subset # <<>>
    /\ Cardinality(EClose(built[1], {built[1].initial})) > 2
    /\ subset[1].states[subset[1].initial] # {built[1].initial}

\* S is closed under the epsilon transitions of fa
IsEpsilonClosed(fa, S) ==
    \A t \in fa.transitions : t[1] \in S /\ t[2] = NoneTr => t[3] \in S

\* the state of the last get_closure call lies on a cycle of epsilon transitions
OnEpsilonCycle ==
    \E t \in built[1].transitions :
        /\ t[1] = closed[1].state
        /\ t[2] = NoneTr
        /\ closed[1].state \in EClose(built[1], {t[3]})

\* C22: get_closure(s) returns the least set of states that contains s and is
\* closed under epsilon transitions, also when those transitions form a cycle.
C22_LeastClosedSet ==
    closed # <<>> =>
        /\ closed[1].state \in closed[1].closure
        /\ IsEpsilonClosed(built[1], closed[1].closure)
        /\ \A S \in SUBSET built[1].states :
               closed[1].state \in S /\ IsEpsilonClosed(built[1], S)
                   => closed[1].closure \subseteq S

\* get_closure has returned for a state on an epsilon cycle of an NFA that
\* also has labelled transitions
C22_Witness ==
    /\ closed # <<>>
    /\ OnEpsilonCycle
    /\ closed[1].closure # built[1].states
    /\ \E t \in built[1].transitions : t[2] # NoneTr

\* the targets of the transitions on event c that leave the members of D
StepTargets(fa, D, c) ==
    {t[3] : t \in {u \in fa.transitions : u[1] \in D /\ u[2] = c}}

\* C23: in to_dfa, for every DFA state D and every non-epsilon symbol c on
\* which a member of D has a transition, the DFA has exactly one transition
\* from D on c and it leads to the epsilon-closure of the union of the targets
\* of the c-transitions leaving the members of D; there is none when no member
\* has one; and the worklist takes every DFA state off the stack exactly once.
C23_SubsetStep ==
    subset # <<>> =>
        /\ \A ix \in 1..Len(subset[1].states) : \A c \in FaAlphabet :
               LET targets == StepTargets(built[1], subset[1].states[ix], c)
                   found == {t \in subset[1].transitions : t[1] = ix /\ t[2] = c}
               IN IF targets = {} THEN found = {}
                  ELSE /\ Cardinality(found) = 1
                       /\ \A t \in found :
                              subset[1].states[t[3]] = EClose(built[1], targets)
        /\ Len(popped) = Len(subset[1].states)
        /\ \A ix \in 1..Len(subset[1].states) :
               Cardinality({k \in 1..Len(popped) : popped[k] = subset[1].states[ix]}) = 1

\* to_dfa has run on an NFA where one DFA state steps on a symbol to targets
\* whose closure is larger, and a DFA state is reached by two transitions
C23_Witness ==
    /\ subset # <<>>
    /\ \E ix \in 1..Len(subset[1].states) : \E c \in FaAlphabet :
           LET targets == StepTargets(built[1], subset[1].states[ix], c)
           IN targets # {} /\ EClose(built[1], targets) # targets
    /\ \E t, u \in subset[1].transitions : t # u /\ t[3] = u[3]
    /\ Len(popped) >= 2

\* C24: in the conversion of dfa.rs, for every DFA state and every event on
\* which its members have transitions, the DFA transition on that event leads
\* to the set of the targets of all those members.
C24_AllMembersTargets ==
    powerset # <<>> =>
        \A ix \in 1..Len(powerset[1].ix_to_st) : \A event \in FaAlphabet \cup {NoneTr} :
            LET targets == StepTargets(built[1], powerset[1].ix_to_st[ix], event)
            IN targets # {} =>
                   \E t \in powerset[1].transitions :
                       /\ t[1] = ix
                       /\ t[2] = event
                       /\ powerset[1].ix_to_st[t[3]] = targets

\* the number of nodes of a regex AST
RECURSIVE Nodes(_)
Nodes(r) ==
    LET RECURSIVE Sum(_)
        Sum(j) == IF j = 0 THEN 0 ELSE Nodes(r.res[j]) + Sum(j - 1)
    IN 1 + Sum(Len(r.res))

\* the id that pre-order numbering gives to the initial state of the j-th child
\* of r when r's own initial state has id b: two ids for r, then two per node
\* of every earlier child
ChildBase(r, b, j) ==
    LET RECURSIVE Before(_)
        Before(k) == IF k = 0 THEN 0 ELSE Nodes(r.res[k]) + Before(k - 1)
    IN b + 2 + 2 * Before(j - 1)

\* the fragment that the recursive call returns for the j-th child of the
\* regex under construction
SubFragment(j) == from_re(regex.res[j], ChildBase(regex, 0, j)).fa

\* the states of all the sub-fragments
SubStates == UNION {SubFragment(j).states : j \in 1..Len(regex.res)}

\* from_re has returned the fragment of a regex of the given constructor
BuiltFor(type) == built # <<>> /\ regex.type = type

\* C25: the fragment built for Alternation([r1..rk]) has fresh states i and f,
\* f is its only accepting state, and for every alternative rj there is an
\* epsilon edge from i to the initial state of rj's fragment and one from every
\* accepting state of rj's fragment to f.
C25_AlternationEdges ==
    BuiltFor("Alternation") =>
        LET i == built[1].initial
            f == CHOOSE q \in built[1].finals : TRUE
        IN /\ built[1].finals = {f}
           /\ i # f
           /\ {i, f} \subseteq built[1].states
           /\ {i, f} \cap SubStates = {}
           /\ \A j \in 1..Len(regex.res) :
                  /\ <<i, NoneTr, SubFragment(j).initial>> \in built[1].transitions
                  /\ \A q \in SubFragment(j).finals :
                         <<q, NoneTr, f>> \in built[1].transitions

\* from_re has returned the fragment of an alternation of two alternatives
C25_Witness ==
    /\ BuiltFor("Alternation")
    /\ Len(regex.res) = 2
    /\ Cardinality({t \in built[1].transitions : t[3] \in built[1].finals}) = 2

\* C26: the fragment built for Concatenation([r1..rk]) chains the sub-fragments
\* in list order: the only edge leaving i is an epsilon edge to the initial
\* state of r1's fragment, every accepting state of rj's fragment has an
\* epsilon edge to the initial state of r(j+1)'s fragment, the edges entering f
\* are epsilon edges from the accepting states of rk's fragment, and f is the
\* only accepting state.
C26_ConcatenationChain ==
    BuiltFor("Concatenation") /\ Len(regex.res) > 0 =>
        LET i == built[1].initial
            f == CHOOSE q \in built[1].finals : TRUE
            k == Len(regex.res)
        IN /\ built[1].finals = {f}
           /\ {i, f} \cap SubStates = {}
           /\ {t \in built[1].transitions : t[1] = i}
                  = {<<i, NoneTr, SubFragment(1).initial>>}
           /\ \A j \in 1..(k - 1) : \A q \in SubFragment(j).finals :
                  <<q, NoneTr, SubFragment(j + 1).initial>> \in built[1].transitions
           /\ {t \in built[1].transitions : t[3] = f}
                  = {<<q, NoneTr, f>> : q \in SubFragment(k).finals}

\* from_re has returned the fragment of a concatenation of two pieces
C26_Witness ==
    /\ BuiltFor("Concatenation")
    /\ Len(regex.res) = 2
    /\ <<3, NoneTr, 4>> \in built[1].transitions

\* C27: the fragment built for Repetition(r) has fresh states i and f, f is its
\* only accepting state, and the transitions added to those of r's fragment
\* are exactly the epsilon edges i to initial(sub), every accepting state of
\* sub to initial(sub), every accepting state of sub to f, and i to f.
C27_RepetitionEdges ==
    BuiltFor("Repetition") =>
        LET i == built[1].initial
            f == CHOOSE q \in built[1].finals : TRUE
            sub == SubFragment(1)
        IN /\ built[1].finals = {f}
           /\ i # f
           /\ {i, f} \subseteq built[1].states
           /\ {i, f} \cap sub.states = {}
           /\ built[1].transitions \ sub.transitions =
                  {<<i, NoneTr, sub.initial>>, <<i, NoneTr, f>>}
                      \cup {<<q, NoneTr, sub.initial>> : q \in sub.finals}
                      \cup {<<q, NoneTr, f>> : q \in sub.finals}

\* from_re has returned the fragment of a repetition of a composite regex
C27_Witness ==
    /\ BuiltFor("Repetition")
    /\ Nodes(regex) > 2
    /\ Cardinality(built[1].transitions \ SubFragment(1).transitions) = 4

\* the epsilon edges that the constructor of the regex under construction
\* prescribes between i, f and its sub-fragments
PrescribedEdges ==
    LET i == 0
        f == 1
        k == Len(regex.res)
        Initial(j) == SubFragment(j).initial
        Exits(j, target) == {<<q, NoneTr, target>> : q \in SubFragment(j).finals}
    IN CASE regex.type = "Alternation" ->
              UNION {{<<i, NoneTr, Initial(j)>>} \cup Exits(j, f) : j \in 1..k}
         [] regex.type = "Concatenation" ->
              IF k = 0 THEN {<<i, NoneTr, f>>}
              ELSE {<<i, NoneTr, Initial(1)>>}
                       \cup UNION {Exits(j, Initial(j + 1)) : j \in 1..(k - 1)}
                       \cup Exits(k, f)
         [] regex.type = "Repetition" ->
              {<<i, NoneTr, Initial(1)>>, <<i, NoneTr, f>>}
                  \cup Exits(1, Initial(1)) \cup Exits(1, f)
         [] OTHER -> {}

\* from_re has returned a fragment into which sub-fragments were grafted
Grafted == built # <<>> /\ regex.type \in {"Alternation", "Concatenation", "Repetition"}

\* C28: every transition of a grafted sub-fragment is in the outer fragment
\* with the same source, label and target, and the outer fragment has no
\* transitions other than these copies and the epsilon edges prescribed for
\* its constructor.
C28_GraftFrame ==
    Grafted =>
        /\ \A j \in 1..Len(regex.res) :
               SubFragment(j).transitions \subseteq built[1].transitions
        /\ built[1].transitions \ PrescribedEdges
               = UNION {SubFragment(j).transitions : j \in 1..Len(regex.res)}

\* a fragment was grafted whose own sub-fragment carries a labelled transition
C28_Witness ==
    /\ Grafted
    /\ Len(regex.res) > 0
    /\ regex.res[1].type \in {"Alternation", "Concatenation", "Repetition"}
    /\ \E t \in SubFragment(1).transitions : t[2] # NoneTr

\* the transitions of the fragment of r when the ids are given out in
\* pre-order starting at b: r's initial state is b, its accepting state b + 1,
\* then the children left to right
RECURSIVE PreOrderEdges(_, _)
PreOrderEdges(r, b) ==
    LET i == b
        f == b + 1
        k == Len(r.res)
        ci(j) == ChildBase(r, b, j)
        cf(j) == ChildBase(r, b, j) + 1
        inside == UNION {PreOrderEdges(r.res[j], ci(j)) : j \in 1..k}
    IN CASE r.type = "Epsilon" -> {<<i, NoneTr, f>>}
         [] r.type = "Symbol" -> {<<i, r.symbol, f>>}
         [] r.type = "Alternation" ->
              inside \cup UNION {{<<i, NoneTr, ci(j)>>, <<cf(j), NoneTr, f>>} : j \in 1..k}
         [] r.type = "Concatenation" ->
              IF k = 0 THEN {<<i, NoneTr, f>>}
              ELSE inside \cup {<<i, NoneTr, ci(1)>>, <<cf(k), NoneTr, f>>}
                          \cup {<<cf(j), NoneTr, ci(j + 1)>> : j \in 1..(k - 1)}
         [] r.type = "Repetition" ->
              inside \cup {<<i, NoneTr, ci(1)>>, <<cf(1), NoneTr, ci(1)>>,
                           <<cf(1), NoneTr, f>>, <<i, NoneTr, f>>}

\* C29: for a regex AST of n nodes the epsilon-NFA that from_re builds has
\* exactly 2n states, their ids are the integers 0..2n-1, and the ids are given
\* out in pre-order: a node's initial state gets the next free id, its
\* accepting state the one after, then its children left to right.
C29_PreOrderIds ==
    built # <<>> =>
        /\ built[1].states = 0..(2 * Nodes(regex) - 1)
        /\ Cardinality(built[1].states) = 2 * Nodes(regex)
        /\ built[1].initial = 0
        /\ built[1].finals = {1}
        /\ built[1].transitions = PreOrderEdges(regex, 0)

\* from_re has returned the fragment of a regex of at least three nodes whose
\* root has two children
C29_Witness ==
    /\ built # <<>>
    /\ Nodes(regex) >= 3
    /\ Len(regex.res) = 2
    /\ Cardinality(built[1].states) >= 6

\* the language of a regex: w is matched by r
RECURSIVE Matches(_, _)
Matches(r, w) ==
    CASE r.type = "Epsilon" -> w = <<>>
      [] r.type = "Symbol" -> w = <<r.symbol>>
      [] r.type = "Alternation" -> \E j \in 1..Len(r.res) : Matches(r.res[j], w)
      [] r.type = "Concatenation" ->
           IF r.res = <<>> THEN w = <<>>
           ELSE \E k \in 0..Len(w) :
                    /\ Matches(Head(r.res), SubSeq(w, 1, k))
                    /\ Matches(Concatenation(Tail(r.res)), SubSeq(w, k + 1, Len(w)))
      [] r.type = "Repetition" ->
           \/ w = <<>>
           \/ \E k \in 1..Len(w) :
                  /\ Matches(r.res[1], SubSeq(w, 1, k))
                  /\ Matches(r, SubSeq(w, k + 1, Len(w)))

\* from_re has just returned: nothing was computed from the fragment yet
JustBuilt == built # <<>> /\ subset = <<>> /\ closed = <<>> /\ powerset = <<>>

\* C30: the epsilon-NFA built from a regex accepts exactly the strings of the
\* regex's language: for every regex of up to MaxNodes nodes and every string
\* of up to MaxLen symbols, the NFA accepts the string iff the regex matches it.
C30_SameLanguageAsRegex ==
    JustBuilt => \A w \in FaTexts : NfaAccepts(built[1], w) <=> Matches(regex, w)

\* from_re has returned the fragment of a regex with a repetition that
\* matches the empty string and a string of two symbols but not every string
C30_Witness ==
    /\ JustBuilt
    /\ \E j \in 1..Len(regex.res) : regex.res[j].type = "Repetition"
    /\ NfaAccepts(built[1], <<>>)
    /\ \E w \in FaTexts : Len(w) = 2 /\ NfaAccepts(built[1], w)
    /\ \E w \in FaTexts : ~NfaAccepts(built[1], w)

\* C31: in the union epsilon-NFA built by compile the fresh initial state I0
\* has an absent tag and is not accepting, there is an epsilon edge from I0 to
\* the initial state of every production's fragment, and the accepting states
\* of the union are exactly the accepting states of the fragments, each with
\* the tag it has in its fragment.
C31_UnionShape ==
    Produced =>
        \E uuids \in Permutations(1..(Len(productions) + 1)) :
            LET I0 == enfa[1].initial
                res == Fragments(productions, uuids)
            IN /\ I0 = TokenState_new(uuids[Len(productions) + 1], None)
               /\ I0.token = None
               /\ I0 \notin enfa[1].finals
               /\ I0 \notin UNION {res[j].states : j \in 1..Len(res)}
               /\ \A j \in 1..Len(res) :
                      <<I0, NoneTr, res[j].initial>> \in enfa[1].transitions
               /\ {t \in enfa[1].transitions : t[1] = I0}
                      = {<<I0, NoneTr, res[j].initial>> : j \in 1..Len(res)}
               /\ enfa[1].finals = UNION {res[j].finals : j \in 1..Len(res)}

\* compile has built the union of three fragments, one of them untagged
C31_Witness ==
    /\ Produced
    /\ Len(productions) = 3
    /\ Cardinality(enfa[1].finals) = 3
    /\ \E q \in enfa[1].finals : q.token = None
    /\ \E q \in enfa[1].finals : q.token # None

\* C32: compile never fails: after a fragment has been subsumed into the
\* union its initial state and its accepting states are found in the union,
\* so no call of compile ends in a panic and the first call stores a DFA.
C32_CompileTotal ==
    /\ [](pc # "panicked")
    /\ [][compiles' = compiles + 1 => dfa' # <<>>]_vars

\* compile has stored the DFA of a catalogue of three productions
C32_Witness ==
    /\ Produced
    /\ compiles = 1
    /\ Len(productions) = 3
    /\ Len(dfa[1].states) > 2

\* C33: all the states minted by one generator carry the generator's fragment
\* identifier and strictly increasing sequence numbers, whichever minting
\* operation is called and whatever enable/disable toggles come between, so
\* a newly minted state differs from the one minted before it (and, numbers
\* increasing, from every earlier one).
C33_MintedDistinct ==
    [][(minted # <<>> /\ minted' # minted) =>
          /\ minted'[1].next.uuid = minted[1].next.uuid
          /\ minted'[1].next.uuid = generator'[1].token_state.uuid
          /\ minted'[1].next.sequence_number > minted[1].next.sequence_number
          /\ minted'[1].next # minted[1].next]_vars

\* next_final has minted a third state, after earlier mints, on a tagged
\* generator whose finals are disabled
C33_Witness ==
    /\ minted # <<>>
    /\ minted[1].next.sequence_number >= 2
    /\ minted[1].call = "next_final"
    /\ ~generator[1].final_enabled
    /\ generator[1].token_state.token # None

\* the two maps of the NFA store are inverse to each other and the indices in
\* use are 0 .. number of states - 1
NfaBijection ==
    nfa_store # <<>> =>
    LET nfa == nfa_store[1]
    IN /\ DOMAIN nfa.ix_st = 0..(Cardinality(DOMAIN nfa.st_ix) - 1)
       /\ \A st \in DOMAIN nfa.st_ix :
              nfa.st_ix[st] \in DOMAIN nfa.ix_st /\ nfa.ix_st[nfa.st_ix[st]] = st
       /\ \A ix \in DOMAIN nfa.ix_st :
              nfa.ix_st[ix] \in DOMAIN nfa.st_ix /\ nfa.st_ix[nfa.ix_st[ix]] = ix

\* the same for the map and the list of the DFA store
DfaBijection ==
    dfa_store # <<>> =>
    LET store == dfa_store[1]
    IN /\ Len(store.ix_to_st) = Cardinality(DOMAIN store.st_to_ix)
       /\ \A st \in DOMAIN store.st_to_ix :
              /\ store.st_to_ix[st] \in 1..Len(store.ix_to_st)
              /\ store.ix_to_st[store.st_to_ix[st]] = st
       /\ \A ix \in 1..Len(store.ix_to_st) :
              /\ store.ix_to_st[ix] \in DOMAIN store.st_to_ix
              /\ store.st_to_ix[store.ix_to_st[ix]] = ix

\* the index of an identity, once assigned, stays
IndicesStable ==
    /\ nfa_store # <<>> =>
           \A st \in DOMAIN nfa_store[1].st_ix :
               /\ st \in DOMAIN nfa_store'[1].st_ix
               /\ nfa_store'[1].st_ix[st] = nfa_store[1].st_ix[st]
    /\ dfa_store # <<>> =>
           \A st \in DOMAIN dfa_store[1].st_to_ix :
               /\ st \in DOMAIN dfa_store'[1].st_to_ix
               /\ dfa_store'[1].st_to_ix[st] = dfa_store[1].st_to_ix[st]

\* what an insertion returns and changes: the existing index and nothing for
\* an identity already present, the next unused index for a new one
InsertionOutcome ==
    (inserted' # inserted /\ inserted'[1].store \in {"nfa", "dfa"}) =>
        LET st == inserted'[1].st
            ix == inserted'[1].ix
        IN IF inserted'[1].store = "nfa"
           THEN IF st \in DOMAIN nfa_store[1].st_ix
                THEN ix = nfa_store[1].st_ix[st] /\ nfa_store' = nfa_store
                ELSE /\ ix \notin DOMAIN nfa_store[1].ix_st
                     /\ ix = Cardinality(DOMAIN nfa_store[1].st_ix)
                     /\ nfa_store'[1].st_ix[st] = ix
           ELSE IF st \in DOMAIN dfa_store[1].st_to_ix
                THEN ix = dfa_store[1].st_to_ix[st] /\ dfa_store' = dfa_store
                ELSE /\ ix \notin 1..Len(dfa_store[1].ix_to_st)
                     /\ ix = Len(dfa_store[1].ix_to_st) + 1
                     /\ dfa_store'[1].st_to_ix[st] = ix

\* C34: the state stores of nfa.rs and dfa.rs keep a bijection between
\* identities and indices: after any sequence of insertions, inserting an
\* identity already present returns its index and changes nothing, a new
\* identity gets the next unused index, and an index once assigned to an
\* identity never changes and is not given to another one.
C34_StableBijection ==
    /\ [](NfaBijection /\ DfaBijection)
    /\ [][IndicesStable /\ InsertionOutcome]_vars

\* the NFA store holds every identity offered, one of its indices is marked
\* accepting, and the last insertion returned the index of an identity that
\* was already present
C34_Witness ==
    /\ nfa_store # <<>>
    /\ Cardinality(DOMAIN nfa_store[1].st_ix) = MaxStored
    /\ inserted # <<>>
    /\ inserted[1].store = "nfa"
    /\ inserted[1].ix = INIT_IX
    /\ nfa_store[1].finals # {}

\* C35: after any sequence of insert_state, insert_transition and set_final
\* calls on an NFA, the initial state is a member of the state set, every
\* transition's source and target are indices of member states, and every
\* accepting index is the index of a member state.
C35_MembersOnly ==
    nfa_store # <<>> =>
    LET nfa == nfa_store[1]
    IN /\ INIT_IX \in DOMAIN nfa.ix_st
       /\ \A start_ix \in DOMAIN nfa.transitions :
              /\ start_ix \in DOMAIN nfa.ix_st
              /\ \A t \in nfa.transitions[start_ix] : t[2] \in DOMAIN nfa.ix_st
       /\ nfa.finals \subseteq DOMAIN nfa.ix_st

\* C36: in the union epsilon-NFA handed to subset construction every state
\* that is not accepting has an absent tag, so every state with a tag is
\* accepting and a DFA state that carries a tag is accepting.
C36_TagsOnlyOnAccepting ==
    Produced =>
        /\ \A q \in enfa[1].states : q \notin enfa[1].finals => q.token = None
        /\ \A q \in enfa[1].states : q.token # None => q \in enfa[1].finals
        /\ \A ix \in 1..Len(dfa[1].states) :
               (\E q \in dfa[1].states[ix] : q.token # None) => ix \in dfa[1].finals

\* the union holds tagged accepting states, untagged non-accepting states
\* minted by the same generators, and the DFA has a state without any tag
C36_Witness ==
    /\ Produced
    /\ \E q \in enfa[1].finals : q.token # None
    /\ \E q, r \in enfa[1].states :
           q.uuid = r.uuid /\ q.token # None /\ r \notin enfa[1].finals
    /\ \E ix \in 1..Len(dfa[1].states) : \A q \in dfa[1].states[ix] : q.token = None

\* an emit-and-restart step of lex (lexer.rs 85-101)
RestartStep == pc = "loop" /\ pc' = "loop" /\ Len(lexemes') = Len(lexemes) + 1

\* C37: lex terminates on every finite input: between two emit-and-restart
\* steps, and before the first one, at least one character is consumed, so no
\* restart happens with an empty lexeme (which would leave the scanner in
\* the initial state with the same characters left), also when the initial
\* state is accepting and has no transition on the next character.
C37_RestartConsumes ==
    [][RestartStep => token_text # <<>>]_vars

\* C38: every token returned by lex has a non-empty text: no token is emitted
\* for the empty lexeme, neither on a restart nor at end of input.
C38_NoEmptyToken ==
    \A k \in 1..Len(tokens) : tokens[k].text # <<>>

\* the productions that accept the lexeme w
AcceptingProductions(w) ==
    {j \in 1..Len(productions) : Matches(productions[j].re, w)}

\* a skip production and exactly one token production accept w
SkipAndOneToken(w) ==
    /\ \E j \in AcceptingProductions(w) : productions[j].token = None
    /\ Cardinality({j \in AcceptingProductions(w) : productions[j].token # None}) = 1

\* the kind of the token production among those that accept w
TokenKindFor(w) ==
    productions[CHOOSE j \in AcceptingProductions(w) : productions[j].token # None].token

\* C39: when a skip production and exactly one token production both accept
\* the lexeme that is emitted, lex emits the token of the token production
\* and does not discard the lexeme (nor panic), whatever the order of the
\* productions and of the member states inside the DFA state.
C39_TokenBeatsSkip ==
    [][(EmitsHere /\ SkipAndOneToken(token_text)) =>
          tokens' = Append(tokens, Token_new(TokenKindFor(token_text), token_text))]_vars

\* lex has returned a token for a lexeme that a skip production accepts too,
\* from a DFA state in which the skip production's accepting state comes
\* before the token production's
C39_Witness ==
    /\ pc = "done"
    /\ result.status = "Ok"
    /\ lexemes # <<>>
    /\ SkipAndOneToken(token_text)
    /\ tokens[Len(tokens)].text = token_text
    /\ \E q, r \in dfa[1].states[source_index] \cap enfa[1].finals :
           q.token = None /\ r.token # None /\ q.uuid < r.uuid

\* C40: to_dfa terminates for every finite epsilon-NFA, symbol and epsilon
\* cycles included: no closure set is taken off the worklist twice, so the
\* loop runs at most once per set of NFA states.
C40_WorklistOnce ==
    subset # <<>> =>
        /\ \A j, k \in 1..Len(popped) : j # k => popped[j] # popped[k]
        /\ \A k \in 1..Len(popped) :
               popped[k] # {} /\ popped[k] \subseteq built[1].states
        /\ Len(popped) <= 2 ^ Cardinality(built[1].states)

\* to_dfa has returned for an NFA with an epsilon cycle and a symbol cycle:
\* a DFA state has a transition on a symbol back to itself
C40_Witness ==
    /\ subset # <<>>
    /\ HasEpsilonCycle(built[1])
    /\ \E t \in subset[1].transitions : t[1] = t[3]
    /\ Len(popped) >= 2
====
